---- MODULE Spec2Model ----
(***************************************************************************)
(* Model of xc, a parallel test runner that drives CPython sub-interpreters.*)
(*                                                                         *)
(* Two components are modelled, each with its own specification:           *)
(*   SpecRun   - run::test, the per-test execution state machine           *)
(*               (src/src/run.rs), one test driven to its outcome;         *)
(*   SpecSched - main(), the rayon fan-out over the discovered tests, the  *)
(*               interpreter locks (GILs) and the interpreter lifecycle    *)
(*               (src/src/main.rs, src/src/python.rs,                      *)
(*               src/src/python/interpreters.rs).                          *)
(***************************************************************************)
EXTENDS Integers, Sequences, FiniteSets, TLC

\* ------------------------------------------------------------------ bounds
\* Longest pytestmark list a test object carries.
MaxMarks == 2
\* Discovered tests (discovered.tests), threads of the rayon pool, and
\* Python files scanned by coverage::get_executable_lines.
NumTests == 2
NumWorkers == 2
NumFiles == 1
\* Python objects, handles alive at the same time, and references a Python
\* container (tuple, dict) holds to one object.
NumObjects == 2
MaxHandles == 3
MaxReferents == 2
\* Writes to stdout and stderr made by all running tests together.
MaxWrites == 3
\* Line numbers of a file and depth of the Python stack while tracing.
MaxLine == 2
MaxDepth == 2
\* Python frames between the test function and the raise, both included.
MaxChain == 3
\* Native calls made by one run of a test.
MaxCalls == 3
\* Directories between the root and the test file.
MaxNesting == 3

\* ------------------------------------------------------------- run::test
VARIABLES
  test_kind,          \* Test::Function or Test::Method (discovery::Test)
  hooks,              \* the hooks the class instance has (has_attr)
  pc,                 \* position inside test_function / test_method
  object,             \* the PyObject whose markers are being inspected
  expecting_failure,  \* local `expecting_failure`
  test_result,        \* local `test_result`: Ok or Err(exception)
  skip_reason,        \* what the last has_skip_annotation call returned
  outcome,            \* the OutcomeKind returned, NoOutcome until then
  trace               \* the native calls made so far, in order

runVars ==
  <<test_kind, hooks, pc, object, expecting_failure, test_result, skip_reason,
    outcome, trace>>

\* ------------------------------------------------------------------ main()
VARIABLES
  discovered,            \* discovered.tests: the tests found by discovery
  no_fail_fast,          \* args.no_fail_fast
  coverage_enabled,      \* args.coverage.enabled
  main_pc,               \* position of the main thread inside main()
  exit_code,             \* Running until the process ends, then its exit code
  interp_state,          \* per interpreter: "none", "alive" or "ended"
  holders,               \* per GIL: the threads that hold it
  current_ts,            \* per thread: the runtime's current thread state
  main_thread_state,     \* Interpreter.main_thread_state
  wpc,                   \* per worker: position inside the par_iter closure
  task,                  \* per worker: the test (or file) it is processing
  interpreter_state,     \* per worker: SubInterpreter.interpreter_state
  coverage_trace_object, \* per worker: SubInterpreter.coverage_trace_object
  f_result,              \* per worker: what the closure given to run returned
  local,                 \* per worker: locals `outcome` and `coverage`
  pending,               \* tests and files no worker has taken yet
  reported,              \* tests passed to reporter.result, in order
  fail_fast_errors,      \* tests passed to reporter.fail_fast_error
  results,               \* per test: the item that reached collect()
  summary,               \* the TestSummary given to reporter.summary
  acquired,              \* per GIL: every thread that ever acquired it
  creator,               \* per sub-interpreter: the thread that created it
  ended,                 \* per sub-interpreter: who ended it, holding its GIL?
  unlocked_ops           \* interpreter operations made without the GIL

schedVars ==
  <<discovered, no_fail_fast, coverage_enabled, main_pc, exit_code,
    interp_state, holders, current_ts, main_thread_state, wpc, task, interpreter_state,
    coverage_trace_object, f_result, local, pending, reported,
    fail_fast_errors, results, summary, acquired, creator, ended,
    unlocked_ops>>

\* --------------------------------------------- handles (python/objects.rs)
VARIABLES
  ob_refcnt,        \* per object: its reference count (ob_refcnt)
  referents,        \* per object: references held by Python containers
  handles,          \* per handle slot: the live PyObject / BorrowedPyObject
  freed,            \* objects deallocated: their count has reached zero
  drop_effect,      \* the last drop: kind of handle, count before and after
  used_after_free   \* a freed object has been read or written

refVars == <<ob_refcnt, referents, handles, freed, drop_effect, used_after_free>>

\* --------------------------------- captured output (python/operations.rs)
VARIABLES
  sys,            \* per interpreter: the sys.stdout and sys.stderr of its sys module
  cap_pc,         \* per test: position of its run around the test body
  writes,         \* every write made by a running test, in order of time
  error_output    \* per test: the stdout and stderr stored in its Error

capVars == <<sys, cap_pc, writes, error_output>>

\* ------------------------------------------ trace function (coverage.rs)
VARIABLES
  tracer,         \* the TraceObject installed in the interpreter, if any
  installed,      \* the interpreter calls trace_function on trace events
  frames,         \* the Python stack: the co_filename pointer of each frame
  line_events,    \* every (file name, line) a line event was raised for
  extractions     \* what each call of get_coverage returned, in order

covVars == <<tracer, installed, frames, line_events, extractions>>

\* ------------------------------------ TestSummary::from_par_iter (main.rs)
VARIABLES
  items,          \* the (outcome, coverage) pairs the parallel iterator yields
  test_summary    \* the TestSummary built from them

sumVars == <<items, test_summary>>

\* ------------------------------------- JSONReporter (output/json.rs)
VARIABLES
  outcomes,       \* the TestOutcomes handed to reporter.result, in order
  json_lines      \* the lines JSONReporter::result wrote to stdout

jsonVars == <<outcomes, json_lines>>

\* --------------------------------------------- Traceback::from (run.rs)
VARIABLES
  stack,          \* the Python frames alive at the raise, test function first
  unwound,        \* how many of them the exception has left
  tb_nodes,       \* the traceback objects created so far, by identity
  exc_traceback,  \* the exception's __traceback__: a node or NULL
  tb_pc,          \* "raised", "add_frame" or "done"
  cursor,         \* the `frame` argument of the running add_frame call
  traceback       \* Error::traceback, the Option<Traceback> being built

tbVars == <<stack, unwound, tb_nodes, exc_traceback, tb_pc, cursor, traceback>>

\* ------------------------- the raised exception (python/objects.rs)
VARIABLES
  indicator,      \* the exception raised in the sub-interpreter, or NoException
  exc_pc,         \* "running", "returned" (run::test returned) or "panicked"
  native_calls    \* the native calls made, with the indicator each one left

excVars == <<indicator, exc_pc, native_calls>>

\* --------------------------- Interpreter::initialize's import (python.rs)
VARIABLES
  imported        \* each import of decimal in the main interpreter, in order

impVars == <<imported>>

\* ------------------------------- import path (python.rs / operations.rs)
VARIABLES
  tree,           \* the directories above the test file and its name
  file_arg,       \* test.file(): where the process runs and the path given
  sys_path,       \* sys.path, the directories added by this run first
  module_name,    \* the name calculate_module_name gave the file
  path_pc         \* "execute_file", "compile_file", "exec" or "done"

pathVars == <<tree, file_arg, sys_path, module_name, path_pc>>

\* ------------------------------------------ find_tests (discovery.rs)
VARIABLES
  walk_entries,   \* the entries of the walk no visitor has been given yet
  finder,         \* per walker thread: its TestFinder and where it is
  global_state,   \* the DiscoveredTests inside the Mutex `state`
  state_lock,     \* the walker holding the Mutex, NoWalker when it is free
  disc_pc         \* position of find_tests

discVars == <<walk_entries, finder, global_state, state_lock, disc_pc>>

\* Everything outside run::test, main() and the handles.
auxVars == <<capVars, covVars, sumVars, jsonVars, tbVars, excVars, impVars, pathVars, discVars>>

\* What the actions of each of these parts leave alone.
capOthers == <<runVars, schedVars, refVars, covVars, sumVars, jsonVars, tbVars, excVars, impVars, pathVars, discVars>>
covOthers == <<runVars, schedVars, refVars, capVars, sumVars, jsonVars, tbVars, excVars, impVars, pathVars, discVars>>
sumOthers == <<runVars, schedVars, refVars, capVars, covVars, jsonVars, tbVars, excVars, impVars, pathVars, discVars>>
jsonOthers == <<runVars, schedVars, refVars, capVars, covVars, sumVars, tbVars, excVars, impVars, pathVars, discVars>>
tbOthers == <<runVars, schedVars, refVars, capVars, covVars, sumVars, jsonVars, excVars, impVars, pathVars, discVars>>
excOthers == <<runVars, schedVars, refVars, capVars, covVars, sumVars, jsonVars, tbVars, impVars, pathVars, discVars>>
pathOthers == <<runVars, schedVars, refVars, capVars, covVars, sumVars, jsonVars, tbVars, excVars, impVars, discVars>>
discOthers == <<runVars, schedVars, refVars, capVars, covVars, sumVars, jsonVars, tbVars, excVars, impVars, pathVars>>

vars ==
  <<runVars, schedVars, refVars, capVars, covVars, sumVars, jsonVars, tbVars, excVars, impVars, pathVars, discVars>>

\* Exception class names, as character sequences so that the prefix test of
\* is_skip_exception is computed and not assumed.
AssertionErrorName == <<"A","s","s","e","r","t","i","o","n","E","r","r","o","r">>
SkipTestName == <<"S","k","i","p","T","e","s","t">>
SkippedName == <<"S","k","i","p","p","e","d">>
TypeErrorName == <<"T","y","p","e","E","r","r","o","r">>
SkipPrefix == <<"S","k","i","p">>

\* The exceptions a Python call can raise: [kind, message].
Exceptions ==
  { [kind |-> k, message |-> "msg"] :
      k \in {AssertionErrorName, SkipTestName, SkippedName, TypeErrorName} }

NoError == [kind |-> <<>>, message |-> ""]
Ok == [ok |-> TRUE, error |-> NoError]
Err(e) == [ok |-> FALSE, error |-> e]
NoResult == [ok |-> FALSE, error |-> NoError]

\* str::starts_with
starts_with(s, prefix) ==
  /\ Len(s) >= Len(prefix)
  /\ SubSeq(s, 1, Len(prefix)) = prefix

\* Error::is_assertion_error
is_assertion_error(error) == error.kind = AssertionErrorName

\* Mutant: only the exact name SkipTest counts as a skip exception.
is_skip_exception_exact(error) == error.kind = SkipTestName

\* Error::is_skip_exception
is_skip_exception(error) == starts_with(error.kind, SkipPrefix)

\* OutcomeKind
NoOutcome == [kind |-> "NoOutcome", reason |-> "", error |-> NoError]
Pass == [kind |-> "Pass", reason |-> "", error |-> NoError]
Skip(reason) == [kind |-> "Skip", reason |-> reason, error |-> NoError]
Fail(error) == [kind |-> "Fail", reason |-> "", error |-> error]
Error(error) == [kind |-> "Error", reason |-> "", error |-> error]
ModuleError(error) == [kind |-> "ModuleError", reason |-> "", error |-> error]
ExpectedFailure == [kind |-> "ExpectedFailure", reason |-> "", error |-> NoError]
TestNotFound == [kind |-> "TestNotFound", reason |-> "", error |-> NoError]

\* A pytest mark: its name ("NoName" when the object in the list has no
\* `name` attribute), the first positional argument ("empty" when `args` is
\* the empty tuple) and the `reason` keyword argument.
Marks ==
  { [name |-> "skip",   args |-> "empty", reason |-> "r"],
    [name |-> "skip",   args |-> "empty", reason |-> "NoReason"],
    [name |-> "skipIf", args |-> "T",     reason |-> "r"],
    [name |-> "skipIf", args |-> "F",     reason |-> "NoReason"],
    [name |-> "skipIf", args |-> "empty", reason |-> "NoReason"],
    [name |-> "xfail",  args |-> "T",     reason |-> "NoReason"],
    [name |-> "xfail",  args |-> "F",     reason |-> "NoReason"],
    [name |-> "xfail",  args |-> "empty", reason |-> "NoReason"],
    [name |-> "other",  args |-> "empty", reason |-> "NoReason"],
    [name |-> "NoName", args |-> "empty", reason |-> "NoReason"] }

MarkLists == UNION { [1..n -> Marks] : n \in 0..MaxMarks }

\* A Python object as the marker inspection sees it: the unittest attributes
\* __unittest_skip__ / __unittest_skip_why__ / __unittest_expecting_failure__
\* and the pytestmark list.
Objects ==
  { [skip |-> s, why |-> w, xfail |-> x, has_marks |-> h, marks |-> m] :
      s \in {"absent", "falsy", "truthy"}, w \in {"absent", "w"},
      x \in {"absent", "falsy", "truthy"}, h \in BOOLEAN, m \in MarkLists }

\* One representative per behaviour: the why attribute only matters next to
\* a truthy skip attribute, the list only when the attribute exists.
WellFormed(o) ==
  /\ (o.skip # "truthy" => o.why = "absent")
  /\ (~o.has_marks => o.marks = <<>>)

NoObject ==
  [skip |-> "absent", why |-> "absent", xfail |-> "absent",
   has_marks |-> FALSE, marks |-> <<>>]

\* Results of has_skip_annotation: None, Some(reason), or the run aborts.
NoSkip == [tag |-> "None", reason |-> ""]
SomeSkip(reason) == [tag |-> "Some", reason |-> reason]
Abort == [tag |-> "Abort", reason |-> ""]

\* PyTuple::get_item_unchecked(0).is_truthy(): reading item 0 of an empty
\* tuple is out of bounds (debug_assert in debug builds, a wild read
\* otherwise), so every outcome is possible.
get_item_unchecked_is_truthy(args) ==
  IF args = "empty" THEN {"T", "F", "abort"} ELSE {args}

\* has_truthy_attr
has_truthy_attr(attribute) == attribute = "truthy"

\* The loop of has_skip_annotation over the pytestmark list.
RECURSIVE skip_marks(_)
skip_marks(marks) ==
  IF marks = <<>> THEN {NoSkip}
  ELSE LET mark == Head(marks)
           reason == IF mark.reason = "NoReason" THEN "" ELSE mark.reason
           should_skip ==
             CASE mark.name = "skip" -> {"T"}
               [] mark.name = "skipIf" -> get_item_unchecked_is_truthy(mark.args)
               [] OTHER -> {"F"}
       IN IF mark.name = "NoName" THEN {NoSkip}
          ELSE UNION { CASE t = "T" -> {SomeSkip(reason)}
                         [] t = "F" -> skip_marks(Tail(marks))
                         [] OTHER -> {Abort} : t \in should_skip }

\* Mutant: only the unittest attribute is consulted, the pytestmark list is
\* never scanned.
has_skip_annotation_native_only(o) ==
  IF has_truthy_attr(o.skip)
  THEN {SomeSkip(IF o.why = "absent" THEN "" ELSE o.why)}
  ELSE {NoSkip}

\* has_skip_annotation: the possible results for an object.
has_skip_annotation(o) ==
  IF has_truthy_attr(o.skip)
  THEN {SomeSkip(IF o.why = "absent" THEN "" ELSE o.why)}
  ELSE IF o.has_marks THEN skip_marks(o.marks) ELSE {NoSkip}

\* The loop of is_expecting_failure over the pytestmark list: "T", "F", or
\* "abort" (unwrap on a missing name, or the wild read).
RECURSIVE xfail_marks(_)
xfail_marks(marks) ==
  IF marks = <<>> THEN {"F"}
  ELSE LET mark == Head(marks)
       IN CASE mark.name = "NoName" -> {"abort"}
            [] mark.name = "xfail" -> get_item_unchecked_is_truthy(mark.args)
            [] OTHER -> xfail_marks(Tail(marks))

\* is_expecting_failure: the possible results for an object.
is_expecting_failure(o) ==
  IF has_truthy_attr(o.xfail) THEN {"T"}
  ELSE IF o.has_marks THEN xfail_marks(o.marks) ELSE {"F"}

\* Mutant: the assertion check is made on the message instead of the kind,
\* so an AssertionError is reported as Error.
classify_no_fail(result, expecting) ==
  IF result.ok /\ expecting THEN ExpectedFailure
  ELSE IF ~result.ok /\ expecting THEN Pass
  ELSE IF result.ok THEN Pass
  ELSE IF is_skip_exception(result.error)
       THEN Skip(result.error.message)
       ELSE Error(result.error)

\* Mutant: the two expecting-failure arms are swapped.
classify_not_inverted(result, expecting) ==
  IF result.ok /\ expecting THEN Pass
  ELSE IF ~result.ok /\ expecting THEN ExpectedFailure
  ELSE IF result.ok THEN Pass
  ELSE IF is_skip_exception(result.error)
       THEN Skip(result.error.message)
       ELSE IF is_assertion_error(result.error)
            THEN Fail(result.error)
            ELSE Error(result.error)

\* The final match of test_function / test_method on test_result.
classify(result, expecting) ==
  IF result.ok /\ expecting THEN ExpectedFailure
  ELSE IF ~result.ok /\ expecting THEN Pass
  ELSE IF result.ok THEN Pass
  ELSE IF is_skip_exception(result.error)
       THEN Skip(result.error.message)
       ELSE IF is_assertion_error(result.error)
            THEN Fail(result.error)
            ELSE Error(result.error)

Return(o) ==
  /\ outcome' = o
  /\ pc' = "done"

\* One native call is made: its name and whether it succeeded.
Call(name, ok) == trace' = Append(trace, [call |-> name, ok |-> ok])

Called(name) == \E i \in 1..Len(trace) : trace[i].call = name
Raised(name) == \E i \in 1..Len(trace) : trace[i] = [call |-> name, ok |-> FALSE]
Count(name) == Cardinality({i \in 1..Len(trace) : trace[i].call = name})

\* The optional hooks of a unittest class.
Hooks == {"setUp", "tearDown"}

\* object.has_attr(&method_name) on the class instance
has_attr(hook) == hook \in hooks

InitRun ==
  /\ test_kind \in {"Function", "Method"}
  /\ hooks \in SUBSET Hooks
  /\ test_kind = "Function" => hooks = {}
  /\ pc = "execute_file"
  /\ object = NoObject
  /\ expecting_failure = FALSE
  /\ test_result = NoResult
  /\ skip_reason = NoSkip
  /\ outcome = NoOutcome
  /\ trace = <<>>

\* execute_file with the early returns removed: a failed compilation or a
\* failed execution of the top-level code is ignored and the run goes on.
ExecuteFile_continues ==
  /\ pc = "execute_file"
  /\ \E compiled, executed \in BOOLEAN :
       trace' = IF compiled
                THEN trace \o <<[call |-> "compile_file", ok |-> TRUE],
                                [call |-> "execute_file", ok |-> executed]>>
                ELSE Append(trace, [call |-> "compile_file", ok |-> FALSE])
  /\ pc' = IF test_kind = "Function" THEN "get_function" ELSE "get_class"
  /\ UNCHANGED <<auxVars, refVars, schedVars, test_kind, hooks, object, expecting_failure, test_result, skip_reason, outcome>>

\* python.execute_file(test.file()): compile_file(file)? (Py_CompileString)
\* and then PyImport_ExecCodeModuleEx; the module, or ModuleError built from
\* the exception of whichever of the two stages raised.
ExecuteFile ==
  /\ pc = "execute_file"
  /\ \/ /\ Call("compile_file", FALSE)
        /\ \E e \in Exceptions : Return(ModuleError(e))
     \/ /\ trace' = trace \o <<[call |-> "compile_file", ok |-> TRUE],
                               [call |-> "execute_file", ok |-> FALSE]>>
        /\ \E e \in Exceptions : Return(ModuleError(e))
     \/ /\ trace' = trace \o <<[call |-> "compile_file", ok |-> TRUE],
                               [call |-> "execute_file", ok |-> TRUE]>>
        /\ pc' = IF test_kind = "Function" THEN "get_function" ELSE "get_class"
        /\ UNCHANGED outcome
  /\ UNCHANGED <<auxVars, refVars, schedVars, test_kind, hooks, object, expecting_failure, test_result, skip_reason>>

\* module.get_attr(name): the attribute of the loaded module, or
\* TestNotFound.  at = "get_function" (test_function) or "get_class".
ModuleGetAttr(at, next) ==
  /\ pc = at
  /\ \/ /\ Call(at, TRUE)
        /\ \E o \in Objects :
             /\ WellFormed(o)
             /\ object' = IF at = "get_function" THEN o ELSE NoObject
        /\ pc' = next
        /\ UNCHANGED outcome
     \/ /\ Call(at, FALSE)
        /\ Return(TestNotFound)
        /\ UNCHANGED object
  /\ UNCHANGED <<auxVars, refVars, schedVars, test_kind, hooks, expecting_failure, test_result, skip_reason>>

\* test_function: module.get_attr(&test_name)
GetFunction == ModuleGetAttr("get_function", "skip_function")

\* test_method: module.get_attr(&suite_name)
GetClass == ModuleGetAttr("get_class", "instantiate")

\* class.call() with the failure arm of the lookups: a raising constructor
\* is reported as TestNotFound.
Instantiate_not_found ==
  /\ pc = "instantiate"
  /\ \/ /\ Call("instantiate", TRUE)
        /\ \E o \in Objects : WellFormed(o) /\ object' = o
        /\ pc' = "skip_instance"
        /\ UNCHANGED outcome
     \/ /\ Call("instantiate", FALSE)
        /\ Return(TestNotFound)
        /\ UNCHANGED object
  /\ UNCHANGED <<auxVars, refVars, schedVars, test_kind, hooks, expecting_failure, test_result, skip_reason>>

\* Mutant: class.call() whose error is dropped, the run goes on to the
\* markers with the class in place of the instance.
Instantiate_unchecked ==
  /\ pc = "instantiate"
  /\ \E ok \in BOOLEAN : Call("instantiate", ok)
  /\ \E o \in Objects : WellFormed(o) /\ object' = o
  /\ pc' = "skip_instance"
  /\ UNCHANGED <<auxVars, refVars, schedVars, test_kind, hooks, expecting_failure, test_result, skip_reason, outcome>>

\* test_method: class.call(), the instance or ModuleError.
Instantiate ==
  /\ pc = "instantiate"
  /\ \/ /\ Call("instantiate", TRUE)
        /\ \E o \in Objects : WellFormed(o) /\ object' = o
        /\ pc' = "skip_instance"
        /\ UNCHANGED outcome
     \/ /\ Call("instantiate", FALSE)
        /\ \E e \in Exceptions : Return(ModuleError(e))
        /\ UNCHANGED object
  /\ UNCHANGED <<auxVars, refVars, schedVars, test_kind, hooks, expecting_failure, test_result, skip_reason>>

\* if let Some(reason) = has_skip_annotation(python, &object) { return Skip }
SkipCheck(at, next) ==
  /\ pc = at
  /\ \E r \in has_skip_annotation(object) :
       /\ Call("has_skip_annotation", r.tag # "Abort")
       /\ CASE r.tag = "Some" ->
                 /\ skip_reason' = r
                 /\ Return(Skip(r.reason))
            [] r.tag = "None" ->
                 /\ skip_reason' = r
                 /\ pc' = next
                 /\ UNCHANGED outcome
            [] OTHER ->
                 /\ pc' = "aborted"
                 /\ UNCHANGED <<skip_reason, outcome>>
  /\ UNCHANGED <<auxVars, refVars, schedVars, test_kind, hooks, object, expecting_failure, test_result>>

\* Mutant: the instance is not inspected, the skip markers are only looked
\* for on the method once it is resolved.
SkipInstance_method_only ==
  /\ pc = "skip_instance"
  /\ pc' = "get_method"
  /\ UNCHANGED <<auxVars, refVars, schedVars, test_kind, hooks, object, expecting_failure, test_result, skip_reason, outcome, trace>>

SkipFunction == SkipCheck("skip_function", "expecting_function")

\* test_method: has_skip_annotation(python, &class_instance)
SkipInstance == SkipCheck("skip_instance", "get_method")

\* test_method: has_skip_annotation(python, &method)
SkipMethod == SkipCheck("skip_method", "expecting_method")

\* test_method: class_instance.get_attr(&test_name)
GetMethod ==
  /\ pc = "get_method"
  /\ \/ /\ Call("get_method", TRUE)
        /\ \E o \in Objects : WellFormed(o) /\ object' = o
        /\ pc' = "skip_method"
        /\ UNCHANGED outcome
     \/ /\ Call("get_method", FALSE)
        /\ Return(TestNotFound)
        /\ UNCHANGED object
  /\ UNCHANGED <<auxVars, refVars, schedVars, test_kind, hooks, expecting_failure, test_result, skip_reason>>

\* let expecting_failure = is_expecting_failure(python, &object);
Expecting(at, next) ==
  /\ pc = at
  /\ \E x \in is_expecting_failure(object) :
       /\ Call("is_expecting_failure", x # "abort")
       /\ IF x = "abort"
          THEN pc' = "aborted" /\ UNCHANGED expecting_failure
          ELSE pc' = next /\ expecting_failure' = (x = "T")
  /\ UNCHANGED <<auxVars, refVars, schedVars, test_kind, hooks, object, test_result, skip_reason, outcome>>

ExpectingFunction == Expecting("expecting_function", "call_function")
ExpectingMethod == Expecting("expecting_method", "setUp")

\* call_optional_method(python, &class_instance, hook): nothing when the
\* attribute is absent, else the call; an exception returns ModuleError.
call_optional_method(hook, next) ==
  /\ pc = hook
  /\ \/ /\ ~has_attr(hook)
        /\ pc' = next
        /\ UNCHANGED <<outcome, trace>>
     \/ /\ has_attr(hook)
        /\ Call(hook, TRUE)
        /\ pc' = next
        /\ UNCHANGED outcome
     \/ /\ has_attr(hook)
        /\ Call(hook, FALSE)
        /\ \E e \in Exceptions : Return(ModuleError(e))
  /\ UNCHANGED <<auxVars, refVars, schedVars, test_kind, hooks, object, expecting_failure, test_result, skip_reason>>

\* call_optional_method whose result is discarded by the caller: the
\* exception of the hook is ignored and the run goes on.
call_optional_method_ignored(hook, next) ==
  /\ pc = hook
  /\ \/ /\ ~has_attr(hook)
        /\ pc' = next
        /\ UNCHANGED trace
     \/ /\ has_attr(hook)
        /\ \E ok \in BOOLEAN : Call(hook, ok) /\ pc' = next
  /\ UNCHANGED <<auxVars, refVars, schedVars, test_kind, hooks, object, expecting_failure, test_result, skip_reason, outcome>>

SetUp_ignored == call_optional_method_ignored("setUp", "call_method")
TearDown_ignored == call_optional_method_ignored("tearDown", "classify_method")

SetUp == call_optional_method("setUp", "call_method")
TearDown == call_optional_method("tearDown", "classify_method")

\* let test_result = function.call();  /  method.call();
CallTest(at, next) ==
  /\ pc = at
  /\ \/ test_result' = Ok /\ Call("call", TRUE)
     \/ \E e \in Exceptions : test_result' = Err(e) /\ Call("call", FALSE)
  /\ pc' = next
  /\ UNCHANGED <<auxVars, refVars, schedVars, test_kind, hooks, object, expecting_failure, skip_reason, outcome>>

\* Mutant: the body's error returns at once, `method.call()?`: tearDown is
\* skipped when the body raises.
CallMethod_returns_early ==
  /\ pc = "call_method"
  /\ \/ test_result' = Ok /\ Call("call", TRUE) /\ pc' = "tearDown"
     \/ \E e \in Exceptions :
          test_result' = Err(e) /\ Call("call", FALSE) /\ pc' = "classify_method"
  /\ UNCHANGED <<auxVars, refVars, schedVars, test_kind, hooks, object, expecting_failure, skip_reason, outcome>>

CallFunction == CallTest("call_function", "classify_function")
CallMethod == CallTest("call_method", "tearDown")

\* match test_result { ... }: Error::from(error) is built only in the last arm.
Classify(at) ==
  /\ pc = at
  /\ Return(classify(test_result, expecting_failure))
  /\ IF ~test_result.ok /\ ~expecting_failure
     THEN Call("Error::from", TRUE)
     ELSE UNCHANGED trace
  /\ UNCHANGED <<auxVars, refVars, schedVars, test_kind, hooks, object, expecting_failure, test_result, skip_reason>>

ClassifyFunction == Classify("classify_function")
ClassifyMethod == Classify("classify_method")

\* run::test dispatches on the kind of test.
test_function ==
  \/ GetFunction
  \/ SkipFunction
  \/ ExpectingFunction
  \/ CallFunction
  \/ ClassifyFunction

test_method ==
  \/ GetClass
  \/ Instantiate
  \/ SkipInstance
  \/ GetMethod
  \/ SkipMethod
  \/ ExpectingMethod
  \/ SetUp
  \/ CallMethod
  \/ TearDown
  \/ ClassifyMethod

\* --------------------------------------------- handles (python/objects.rs)
ObjectIds == 1..NumObjects
HandleIds == 1..MaxHandles

NoHandle == [kind |-> "none", object |-> 0]
PyObject(o) == [kind |-> "PyObject", object |-> o]
BorrowedPyObject(o) == [kind |-> "BorrowedPyObject", object |-> o]

NoDrop == [kind |-> "none", before |-> 0, after |-> 0]

\* The handles of each kind that are alive on object o.
Owned(o) == {h \in HandleIds : handles[h] = PyObject(o)}
Borrowed(o) == {h \in HandleIds : handles[h] = BorrowedPyObject(o)}

FreeSlots == {h \in HandleIds : handles[h] = NoHandle}

\* The objects exist already, referenced by the containers that hold them
\* (a mark's args tuple, its kwargs dict) and by nothing else.
InitRef ==
  /\ referents \in [ObjectIds -> 0..MaxReferents]
  /\ ob_refcnt = referents
  /\ handles = [h \in HandleIds |-> NoHandle]
  /\ freed = {}
  /\ drop_effect = NoDrop
  /\ used_after_free = FALSE

\* ffi::Py_IncRef
Py_IncRef(o) == [ob_refcnt EXCEPT ![o] = @ + 1]

\* ffi::Py_DecRef: the count of a live object goes down by one; a freed
\* object has no count left to take from.
Py_DecRef(o) == [ob_refcnt EXCEPT ![o] = IF @ > 0 THEN @ - 1 ELSE 0]

\* What a decrement does besides counting: at zero the object is
\* deallocated; decrementing a deallocated object writes to freed memory.
Deallocate(o) ==
  /\ freed' = IF ob_refcnt[o] <= 1 THEN freed \cup {o} ELSE freed
  /\ used_after_free' = (used_after_free \/ o \in freed)

\* PyObject::from_ptr_or_error / from_ptr_unchecked on the result of a
\* native call that returns a new reference (PyObject_GetAttr,
\* PyObject_CallNoArgs, PyIter_Next, ...): the native call has counted the
\* reference it hands over.
from_ptr(o) ==
  /\ o \notin freed
  /\ \E h \in FreeSlots :
       /\ h = CHOOSE f \in FreeSlots : \A g \in FreeSlots : f <= g
       /\ handles' = [handles EXCEPT ![h] = PyObject(o)]
  /\ ob_refcnt' = Py_IncRef(o)
  /\ UNCHANGED <<auxVars, runVars, schedVars, referents, freed, drop_effect, used_after_free>>

\* impl Clone for PyObject, through a PyObject or, by Deref, a
\* BorrowedPyObject: Py_IncRef, then a second owned handle.
Clone(h) ==
  /\ handles[h] # NoHandle
  /\ \E n \in FreeSlots :
       /\ n = CHOOSE f \in FreeSlots : \A g \in FreeSlots : f <= g
       /\ handles' = [handles EXCEPT ![n] = PyObject(handles[h].object)]
  /\ ob_refcnt' = Py_IncRef(handles[h].object)
  /\ used_after_free' = (used_after_free \/ handles[h].object \in freed)
  /\ UNCHANGED <<auxVars, runVars, schedVars, referents, freed, drop_effect>>

\* impl Drop for PyObject: Py_DecRef(self.as_ptr())
DropPyObject(h) ==
  /\ handles[h].kind = "PyObject"
  /\ LET o == handles[h].object
     IN /\ ob_refcnt' = Py_DecRef(o)
        /\ Deallocate(o)
        /\ drop_effect' = [kind |-> "PyObject", before |-> ob_refcnt[o],
                           after |-> Py_DecRef(o)[o]]
  /\ handles' = [handles EXCEPT ![h] = NoHandle]
  /\ UNCHANGED <<auxVars, runVars, schedVars, referents>>

\* PyDict::get_item, PyTuple::get_item, PyTuple::get_item_unchecked:
\* PyDict_GetItem and PyTuple_GET_ITEM return the pointer the container
\* stores, without counting a reference; it is wrapped as it is.
get_item(o) ==
  /\ referents[o] > 0
  /\ \E h \in FreeSlots :
       /\ h = CHOOSE f \in FreeSlots : \A g \in FreeSlots : f <= g
       /\ handles' = [handles EXCEPT ![h] = BorrowedPyObject(o)]
  /\ UNCHANGED <<auxVars, runVars, schedVars, ob_refcnt, referents, freed, drop_effect,
                 used_after_free>>

\* impl Drop for BorrowedPyObject: fn drop(&mut self) {} runs, and then, as
\* for every struct, its fields are dropped: `object: PyObject` is an
\* ordinary field, so impl Drop for PyObject runs on it.
DropBorrowedPyObject(h) ==
  /\ handles[h].kind = "BorrowedPyObject"
  /\ LET o == handles[h].object
     IN /\ ob_refcnt' = Py_DecRef(o)
        /\ Deallocate(o)
        /\ drop_effect' = [kind |-> "BorrowedPyObject", before |-> ob_refcnt[o],
                           after |-> Py_DecRef(o)[o]]
  /\ handles' = [handles EXCEPT ![h] = NoHandle]
  /\ UNCHANGED <<auxVars, runVars, schedVars, referents>>

\* is_truthy, to_string, get_attr_cstr, ... through a handle: the object is
\* read.  Reading a live object changes nothing here; reading a freed one
\* is recorded.
Use(h) ==
  /\ handles[h] # NoHandle
  /\ handles[h].object \in freed
  /\ ~used_after_free
  /\ used_after_free' = TRUE
  /\ UNCHANGED <<auxVars, runVars, schedVars, ob_refcnt, referents, handles, freed, drop_effect>>

NextRef ==
  \/ \E o \in ObjectIds : from_ptr(o) \/ get_item(o)
  \/ \E h \in HandleIds :
       Clone(h) \/ DropPyObject(h) \/ DropBorrowedPyObject(h) \/ Use(h)

\* No handle exists: the state of the handles while something else runs.
IdleRef ==
  /\ InitRef
  /\ referents = [o \in ObjectIds |-> 0]

\* ------------------------------------------------------------------ main()
Tests == 1..NumTests
Files == (NumTests + 1)..(NumTests + NumFiles)
\* Every task builds its own SubInterpreter, named after the task.
Subs == Tests \cup Files
Workers == 1..NumWorkers
MainThread == 0
Threads == Workers \cup {MainThread}
MainInterpreter == 0
Interpreters == Subs \cup {MainInterpreter}
\* ptr::null_mut()
NULL == -1
NoTask == 0

Kinds ==
  {"Pass", "Skip", "Fail", "Error", "ModuleError", "ExpectedFailure",
   "TestNotFound"}

\* Mutant: is_fail that lets an unexpected success through.
is_fail_expected_ok(kind) == kind \notin {"Pass", "Skip", "ExpectedFailure"}

\* TestOutcome::is_fail
is_fail(kind) == kind \notin {"Pass", "Skip"}

\* Mutant: SubInterpreter::DEFAULT_CONFIG with PyInterpreterConfig_SHARED_GIL,
\* every sub-interpreter runs under the main interpreter's GIL.
GilOf_shared(i) == MainInterpreter

\* SubInterpreter::DEFAULT_CONFIG, gil: PyInterpreterConfig_OWN_GIL: the GIL
\* an interpreter runs under is its own.
GilOf(i) == i

Holds(t, i) == t \in holders[GilOf(i)] /\ current_ts[t] = i

\* ffi::PyEval_RestoreThread(ts): blocks until the GIL of ts's interpreter is
\* free, takes it and makes ts the current thread state.
RestoreThread(t, ts) ==
  /\ ts # NULL
  /\ interp_state[ts] = "alive"
  /\ holders[GilOf(ts)] = {}
  /\ holders' = [holders EXCEPT ![GilOf(ts)] = @ \cup {t}]
  /\ acquired' = [acquired EXCEPT ![GilOf(ts)] = @ \cup {t}]
  /\ current_ts' = [current_ts EXCEPT ![t] = ts]

\* ffi::PyEval_SaveThread() / PyThreadState_Swap(NULL): releases the GIL of
\* the current thread state and detaches it; the caller gets current_ts[t].
SaveThread(t) ==
  /\ holders' = IF current_ts[t] = NULL THEN holders
                ELSE [holders EXCEPT ![GilOf(current_ts[t])] = @ \ {t}]
  /\ current_ts' = [current_ts EXCEPT ![t] = NULL]

\* An operation on interpreter i by thread t: recorded when t does not hold
\* i's GIL with i's thread state current.
Op(t, i, name) ==
  unlocked_ops' = IF Holds(t, i) THEN unlocked_ops
                  ELSE unlocked_ops \cup {<<t, i, name>>}

argVars == <<discovered, no_fail_fast, coverage_enabled>>
reportVars == <<pending, reported, fail_fast_errors, results, summary>>
workerVars ==
  <<wpc, task, interpreter_state, coverage_trace_object, f_result, local>>

NoSummary == [built |-> FALSE, emitted |-> 0, passed |-> 0, skipped |-> 0, failed |-> 0]
NoLocal == [outcome |-> "none", coverage |-> FALSE]
NotEnded == [by |-> NULL, locked |-> FALSE]

\* discovery::find_tests may find any number of tests, none included.
InitSched ==
  /\ discovered \in {1..n : n \in 0..NumTests}
  /\ no_fail_fast \in BOOLEAN
  /\ coverage_enabled \in BOOLEAN
  /\ main_pc = "initialize"
  /\ exit_code = "Running"
  /\ interp_state = [i \in Interpreters |-> "none"]
  /\ holders = [i \in Interpreters |-> {}]
  /\ current_ts = [t \in Threads |-> NULL]
  /\ main_thread_state = NULL
  /\ wpc = [w \in Workers |-> "idle"]
  /\ task = [w \in Workers |-> NoTask]
  /\ interpreter_state = [w \in Workers |-> NULL]
  /\ coverage_trace_object = [w \in Workers |-> FALSE]
  /\ f_result = [w \in Workers |-> "none"]
  /\ local = [w \in Workers |-> NoLocal]
  /\ pending = discovered
  /\ reported = <<>>
  /\ fail_fast_errors = <<>>
  /\ results = [t \in Tests |-> "none"]
  /\ summary = NoSummary
  /\ acquired = [i \in Interpreters |-> {}]
  /\ creator = [s \in Subs |-> NULL]
  /\ ended = [s \in Subs |-> NotEnded]
  /\ unlocked_ops = {}

\* --- the main thread

\* Interpreter::initialize: Py_InitializeFromConfig boots the runtime and
\* leaves the main thread holding the main GIL.
Initialize_Py ==
  /\ exit_code = "Running" /\ main_pc = "initialize"
  /\ interp_state' = [interp_state EXCEPT ![MainInterpreter] = "alive"]
  /\ holders' = [holders EXCEPT ![GilOf(MainInterpreter)] = @ \cup {MainThread}]
  /\ acquired' = [acquired EXCEPT ![GilOf(MainInterpreter)] = @ \cup {MainThread}]
  /\ current_ts' = [current_ts EXCEPT ![MainThread] = MainInterpreter]
  /\ main_pc' = "import_decimal"
  /\ UNCHANGED <<auxVars, refVars, runVars, argVars, reportVars, workerVars, exit_code,
                 main_thread_state, creator, ended, unlocked_ops>>

\* Interpreter::initialize without the import of decimal.
Initialize_ImportDecimal_skipped ==
  /\ exit_code = "Running" /\ main_pc = "import_decimal"
  /\ main_pc' = "swap"
  /\ UNCHANGED <<auxVars, refVars, runVars, argVars, reportVars, workerVars, exit_code,
                 interp_state, holders, current_ts, acquired,
                 main_thread_state, creator, ended, unlocked_ops>>

\* Interpreter::initialize: PyObject::import_module(c"decimal"), recorded
\* with whether the main thread holds the main GIL and with the
\* sub-interpreters created so far.
Initialize_ImportDecimal ==
  /\ exit_code = "Running" /\ main_pc = "import_decimal"
  /\ Op(MainThread, MainInterpreter, "import_module")
  /\ imported' = Append(imported,
       [module |-> "decimal",
        locked |-> Holds(MainThread, MainInterpreter),
        subs |-> {s \in Subs : interp_state[s] # "none"}])
  /\ main_pc' = "swap"
  /\ UNCHANGED <<capVars, covVars, sumVars, jsonVars, tbVars, excVars, pathVars,
                 discVars,
                 refVars, runVars, argVars, reportVars, workerVars, exit_code,
                 interp_state, holders, current_ts, acquired,
                 main_thread_state, creator, ended>>

\* Interpreter::initialize: main_thread_state = PyThreadState_Swap(null)
Initialize_Swap ==
  /\ exit_code = "Running" /\ main_pc = "swap"
  /\ main_thread_state' = current_ts[MainThread]
  /\ SaveThread(MainThread)
  /\ main_pc' = "par_iter"
  /\ UNCHANGED <<auxVars, refVars, runVars, argVars, reportVars, workerVars, exit_code,
                 interp_state, acquired, creator, ended, unlocked_ops>>

AllIdle == \A w \in Workers : wpc[w] = "idle"

Number(kinds) == Cardinality({t \in Tests : results[t] \in kinds})

\* impl FromParallelIterator for TestSummary: every item of the parallel
\* iterator has arrived; count them by outcome kind.
Collect ==
  /\ exit_code = "Running" /\ main_pc = "par_iter"
  /\ pending = {} /\ AllIdle
  /\ summary' = [built |-> TRUE, emitted |-> 0,
                 passed |-> Number({"Pass"}),
                 skipped |-> Number({"Skip"}),
                 failed |-> Number(Kinds \ {"Pass", "Skip"})]
  /\ main_pc' = "summary"
  /\ UNCHANGED <<auxVars, refVars, runVars, argVars, workerVars, exit_code, interp_state,
                 holders, current_ts, acquired, main_thread_state, creator,
                 ended, unlocked_ops, pending, reported, fail_fast_errors,
                 results>>

\* Mutant: a run without failure is successful, passing test or not.
successful_without_pass == summary.failed = 0

\* let successful = results.failed == 0 && results.passed > 0;
successful == summary.failed = 0 /\ summary.passed > 0

\* reporter.summary(&results), then the coverage scan when it is wanted.
Summary ==
  /\ exit_code = "Running" /\ main_pc = "summary"
  /\ summary' = [summary EXCEPT !.emitted = @ + 1]
  /\ IF coverage_enabled /\ successful
     THEN main_pc' = "coverage" /\ pending' = Files
     ELSE main_pc' = "drop" /\ UNCHANGED pending
  /\ UNCHANGED <<auxVars, refVars, runVars, argVars, workerVars, exit_code, interp_state,
                 holders, current_ts, acquired, main_thread_state, creator,
                 ended, unlocked_ops, reported, fail_fast_errors, results>>

\* coverage::get_executable_lines has collected every file; print_summary.
CoverageSummary ==
  /\ exit_code = "Running" /\ main_pc = "coverage"
  /\ pending = {} /\ AllIdle
  /\ main_pc' = "drop"
  /\ UNCHANGED <<auxVars, refVars, runVars, argVars, reportVars, workerVars, exit_code,
                 interp_state, holders, current_ts, acquired,
                 main_thread_state, creator, ended, unlocked_ops>>

\* impl Drop for Interpreter: PyEval_RestoreThread(self.main_thread_state)
DropInterpreter_Restore ==
  /\ exit_code = "Running" /\ main_pc = "drop"
  /\ RestoreThread(MainThread, main_thread_state)
  /\ main_pc' = "finalize"
  /\ UNCHANGED <<auxVars, refVars, runVars, argVars, reportVars, workerVars, exit_code,
                 interp_state, main_thread_state, creator, ended,
                 unlocked_ops>>

\* impl Drop for Interpreter: Py_FinalizeEx(); main returns its ExitCode.
DropInterpreter_Finalize ==
  /\ exit_code = "Running" /\ main_pc = "finalize"
  /\ Op(MainThread, MainInterpreter, "Py_FinalizeEx")
  /\ interp_state' = [interp_state EXCEPT ![MainInterpreter] = "ended"]
  /\ holders' = [holders EXCEPT ![GilOf(MainInterpreter)] = @ \ {MainThread}]
  /\ current_ts' = [current_ts EXCEPT ![MainThread] = NULL]
  /\ exit_code' = IF successful THEN "SUCCESS" ELSE "FAILURE"
  /\ main_pc' = "exited"
  /\ UNCHANGED <<auxVars, refVars, runVars, argVars, reportVars, workerVars, acquired,
                 main_thread_state, creator, ended>>

\* --- the worker threads of the parallel iterator

\* Mutant: a worker thread that outlives process::exit.
Busy_after_exit(w, at) == wpc[w] = at

\* A worker thread is at `at`; no thread runs once the process has ended.
Busy(w, at) == exit_code = "Running" /\ wpc[w] = at

Goto(w, next) == wpc' = [wpc EXCEPT ![w] = next]

\* Mutant: the parallel iterator hands a test out without consuming it.
TakeTest_again(w) ==
  /\ Busy(w, "idle") /\ main_pc = "par_iter"
  /\ \E t \in pending :
       /\ task' = [task EXCEPT ![w] = t]
       /\ UNCHANGED pending
  /\ local' = [local EXCEPT ![w] = NoLocal]
  /\ Goto(w, "new_restore")
  /\ UNCHANGED <<auxVars, refVars, runVars, argVars, main_pc, exit_code, interp_state, holders,
                 current_ts, acquired, main_thread_state, creator, ended,
                 unlocked_ops, reported, fail_fast_errors, results, summary,
                 interpreter_state, coverage_trace_object, f_result>>

\* discovered.tests.par_iter().map(|test| ...): a worker thread takes the
\* next test; every test is handed out once.
TakeTest(w) ==
  /\ Busy(w, "idle") /\ main_pc = "par_iter"
  /\ \E t \in pending :
       /\ task' = [task EXCEPT ![w] = t]
       /\ pending' = pending \ {t}
  /\ local' = [local EXCEPT ![w] = NoLocal]
  /\ Goto(w, "new_restore")
  /\ UNCHANGED <<auxVars, refVars, runVars, argVars, main_pc, exit_code, interp_state, holders,
                 current_ts, acquired, main_thread_state, creator, ended,
                 unlocked_ops, reported, fail_fast_errors, results, summary,
                 interpreter_state, coverage_trace_object, f_result>>

\* coverage::get_executable_lines: .par_bridge().map(|file| ...)
TakeFile(w) ==
  /\ Busy(w, "idle") /\ main_pc = "coverage"
  /\ \E t \in pending :
       /\ task' = [task EXCEPT ![w] = t]
       /\ pending' = pending \ {t}
  /\ local' = [local EXCEPT ![w] = NoLocal]
  /\ Goto(w, "new_restore")
  /\ UNCHANGED <<auxVars, refVars, runVars, argVars, main_pc, exit_code, interp_state, holders,
                 current_ts, acquired, main_thread_state, creator, ended,
                 unlocked_ops, reported, fail_fast_errors, results, summary,
                 interpreter_state, coverage_trace_object, f_result>>

\* SubInterpreter::new: PyEval_RestoreThread(main.main_thread_state)
New_RestoreThread(w) ==
  /\ Busy(w, "new_restore")
  /\ RestoreThread(w, main_thread_state)
  /\ Goto(w, "new_create")
  /\ UNCHANGED <<auxVars, refVars, runVars, argVars, reportVars, main_pc, exit_code,
                 interp_state, main_thread_state, creator, ended,
                 unlocked_ops, task, interpreter_state,
                 coverage_trace_object, f_result, local>>

\* SubInterpreter::new: Py_NewInterpreterFromConfig(&mut interpreter_state,
\* &DEFAULT_CONFIG): called under the main GIL; lets go of it and returns
\* with the new interpreter's thread state current and its GIL held.
New_Create(w) ==
  /\ Busy(w, "new_create")
  /\ Op(w, MainInterpreter, "Py_NewInterpreterFromConfig")
  /\ interp_state' = [interp_state EXCEPT ![task[w]] = "alive"]
  /\ holders' = [holders EXCEPT ![GilOf(MainInterpreter)] = @ \ {w},
                                ![GilOf(task[w])] = @ \cup {w}]
  /\ acquired' = [acquired EXCEPT ![GilOf(task[w])] = @ \cup {w}]
  /\ current_ts' = [current_ts EXCEPT ![w] = task[w]]
  /\ creator' = [creator EXCEPT ![task[w]] = w]
  /\ interpreter_state' = [interpreter_state EXCEPT ![w] = task[w]]
  /\ coverage_trace_object' = [coverage_trace_object EXCEPT ![w] = FALSE]
  /\ Goto(w, "new_save")
  /\ UNCHANGED <<auxVars, refVars, runVars, argVars, reportVars, main_pc, exit_code,
                 main_thread_state, ended, task, f_result, local>>

AfterNew(w) ==
  IF task[w] \in Tests /\ coverage_enabled THEN "cov_restore"
  ELSE "run_restore"

\* Mutant: SubInterpreter::new without its PyEval_SaveThread().
New_SaveThread_missing(w) ==
  /\ Busy(w, "new_save")
  /\ Goto(w, AfterNew(w))
  /\ UNCHANGED <<auxVars, refVars, runVars, argVars, reportVars, main_pc, exit_code,
                 interp_state, holders, current_ts, acquired,
                 main_thread_state, creator, ended, unlocked_ops, task,
                 interpreter_state, coverage_trace_object, f_result, local>>

\* SubInterpreter::new: PyEval_SaveThread(), the result is not used.
New_SaveThread(w) ==
  /\ Busy(w, "new_save")
  /\ SaveThread(w)
  /\ Goto(w, AfterNew(w))
  /\ UNCHANGED <<auxVars, refVars, runVars, argVars, reportVars, main_pc, exit_code,
                 interp_state, acquired, main_thread_state, creator, ended,
                 unlocked_ops, task, interpreter_state,
                 coverage_trace_object, f_result, local>>

\* PyEval_RestoreThread(self.interpreter_state) at the head of
\* enable_coverage, run, get_coverage and drop.
Restore(w, at, next) ==
  /\ Busy(w, at)
  /\ RestoreThread(w, interpreter_state[w])
  /\ Goto(w, next)
  /\ UNCHANGED <<auxVars, refVars, runVars, argVars, reportVars, main_pc, exit_code,
                 interp_state, main_thread_state, creator, ended,
                 unlocked_ops, task, interpreter_state,
                 coverage_trace_object, f_result, local>>

\* self.interpreter_state = PyEval_SaveThread() at the foot of
\* enable_coverage and get_coverage.
Save(w, at, next) ==
  /\ Busy(w, at)
  /\ interpreter_state' = [interpreter_state EXCEPT ![w] = current_ts[w]]
  /\ SaveThread(w)
  /\ Goto(w, next)
  /\ UNCHANGED <<auxVars, refVars, runVars, argVars, reportVars, main_pc, exit_code,
                 interp_state, acquired, main_thread_state, creator, ended,
                 unlocked_ops, task, coverage_trace_object, f_result, local>>

\* SubInterpreter::enable_coverage
EnableCoverage_Restore(w) == Restore(w, "cov_restore", "cov_enable")

\* self.coverage_trace_object = Some(coverage::enable_collection())
EnableCoverage_Collect(w) ==
  /\ Busy(w, "cov_enable")
  /\ Op(w, task[w], "enable_collection")
  /\ coverage_trace_object' = [coverage_trace_object EXCEPT ![w] = TRUE]
  /\ Goto(w, "cov_save")
  /\ UNCHANGED <<auxVars, refVars, runVars, argVars, reportVars, main_pc, exit_code,
                 interp_state, holders, current_ts, acquired,
                 main_thread_state, creator, ended, task, interpreter_state,
                 f_result, local>>

EnableCoverage_Save(w) == Save(w, "cov_save", "run_restore")

\* Mutant: SubInterpreter::run without its PyEval_RestoreThread.
Run_Restore_missing(w) ==
  /\ Busy(w, "run_restore")
  /\ Goto(w, "run_call")
  /\ UNCHANGED <<auxVars, refVars, runVars, argVars, reportVars, main_pc, exit_code,
                 interp_state, holders, current_ts, acquired,
                 main_thread_state, creator, ended, unlocked_ops, task,
                 interpreter_state, coverage_trace_object, f_result, local>>

\* SubInterpreter::run: PyEval_RestoreThread(self.interpreter_state)
Run_Restore(w) == Restore(w, "run_restore", "run_call")

\* SubInterpreter::run: let result = f(); f is run::test(test) for a test
\* and the executable-line scan of one file for the coverage summary.
Run_Call(w) ==
  /\ Busy(w, "run_call")
  /\ IF task[w] \in Tests
     THEN /\ Op(w, task[w], "run::test")
          /\ \E kind \in Kinds : f_result' = [f_result EXCEPT ![w] = kind]
     ELSE /\ Op(w, task[w], "get_line_numbers_for_python_file")
          /\ f_result' = [f_result EXCEPT ![w] = "Lines"]
  /\ Goto(w, "run_save")
  /\ UNCHANGED <<auxVars, refVars, runVars, argVars, reportVars, main_pc, exit_code,
                 interp_state, holders, current_ts, acquired,
                 main_thread_state, creator, ended, task, interpreter_state,
                 coverage_trace_object, local>>

AfterRun(w) == IF task[w] \in Tests THEN "get_restore" ELSE "drop_restore"

\* Mutant: SubInterpreter::run returning without PyEval_SaveThread.
Run_Save_missing(w) ==
  /\ Busy(w, "run_save")
  /\ local' = [local EXCEPT ![w].outcome = f_result[w]]
  /\ Goto(w, AfterRun(w))
  /\ UNCHANGED <<auxVars, refVars, runVars, argVars, reportVars, main_pc, exit_code,
                 interp_state, holders, current_ts, acquired,
                 main_thread_state, creator, ended, unlocked_ops, task,
                 interpreter_state, coverage_trace_object, f_result>>

\* SubInterpreter::run: self.interpreter_state = PyEval_SaveThread(); result
Run_Save(w) ==
  /\ Busy(w, "run_save")
  /\ interpreter_state' = [interpreter_state EXCEPT ![w] = current_ts[w]]
  /\ SaveThread(w)
  /\ local' = [local EXCEPT ![w].outcome = f_result[w]]
  /\ Goto(w, AfterRun(w))
  /\ UNCHANGED <<auxVars, refVars, runVars, argVars, reportVars, main_pc, exit_code,
                 interp_state, acquired, main_thread_state, creator, ended,
                 unlocked_ops, task, coverage_trace_object, f_result>>

\* SubInterpreter::get_coverage
GetCoverage_Restore(w) == Restore(w, "get_restore", "get_take")

\* mem::take(&mut self.coverage_trace_object).as_ref()
\*   .map(coverage::get_executed_lines)
GetCoverage_Take(w) ==
  /\ Busy(w, "get_take")
  /\ IF coverage_trace_object[w]
     THEN Op(w, task[w], "get_executed_lines")
     ELSE UNCHANGED unlocked_ops
  /\ local' = [local EXCEPT ![w].coverage = coverage_trace_object[w]]
  /\ coverage_trace_object' = [coverage_trace_object EXCEPT ![w] = FALSE]
  /\ Goto(w, "get_save")
  /\ UNCHANGED <<auxVars, refVars, runVars, argVars, reportVars, main_pc, exit_code,
                 interp_state, holders, current_ts, acquired,
                 main_thread_state, creator, ended, task, interpreter_state,
                 f_result>>

GetCoverage_Save(w) == Save(w, "get_save", "drop_restore")

\* Mutant: impl Drop for SubInterpreter without its PyEval_RestoreThread.
Drop_Restore_missing(w) ==
  /\ Busy(w, "drop_restore")
  /\ Goto(w, "drop_end")
  /\ UNCHANGED <<auxVars, refVars, runVars, argVars, reportVars, main_pc, exit_code,
                 interp_state, holders, current_ts, acquired,
                 main_thread_state, creator, ended, unlocked_ops, task,
                 interpreter_state, coverage_trace_object, f_result, local>>

\* impl Drop for SubInterpreter: PyEval_RestoreThread(self.interpreter_state)
Drop_Restore(w) == Restore(w, "drop_restore", "drop_end")

\* impl Drop for SubInterpreter: Py_EndInterpreter(self.interpreter_state);
\* the interpreter and its GIL are gone, the thread has no thread state.
\* The sub-interpreter of a test is dropped at the end of the map closure,
\* the temporary one of a file at the end of its statement.
Drop_End(w) ==
  /\ Busy(w, "drop_end")
  /\ Op(w, task[w], "Py_EndInterpreter")
  /\ ended' = [ended EXCEPT ![task[w]] = [by |-> w, locked |-> Holds(w, task[w])]]
  /\ interp_state' = [interp_state EXCEPT ![task[w]] = "ended"]
  /\ holders' = [holders EXCEPT ![GilOf(task[w])] = @ \ {w}]
  /\ current_ts' = [current_ts EXCEPT ![w] = NULL]
  /\ interpreter_state' = [interpreter_state EXCEPT ![w] = NULL]
  /\ IF task[w] \in Tests
     THEN Goto(w, "inspect") /\ UNCHANGED task
     ELSE Goto(w, "idle") /\ task' = [task EXCEPT ![w] = NoTask]
  /\ UNCHANGED <<auxVars, refVars, runVars, argVars, reportVars, main_pc, exit_code, acquired,
                 main_thread_state, creator, coverage_trace_object, f_result,
                 local>>

\* Mutant: the inspection without its reporter.result(outcome).
Inspect_Result_silent(w) ==
  /\ Busy(w, "inspect")
  /\ Goto(w, "fail_fast")
  /\ UNCHANGED <<auxVars, refVars, runVars, argVars, reportVars, main_pc, exit_code,
                 interp_state, holders, current_ts, acquired,
                 main_thread_state, creator, ended, unlocked_ops, task,
                 interpreter_state, coverage_trace_object, f_result, local>>

\* .inspect(|(outcome, _coverage)| { reporter.result(outcome); ...
Inspect_Result(w) ==
  /\ Busy(w, "inspect")
  /\ reported' = Append(reported, task[w])
  /\ Goto(w, "fail_fast")
  /\ UNCHANGED <<auxVars, refVars, runVars, argVars, main_pc, exit_code, interp_state, holders,
                 current_ts, acquired, main_thread_state, creator, ended,
                 unlocked_ops, task, interpreter_state,
                 coverage_trace_object, f_result, local, pending,
                 fail_fast_errors, results, summary>>

\* Mutant: the inspection without `process::exit(1)`: the failing outcome is
\* passed on to collect() like any other.
Inspect_FailFast_no_exit(w) ==
  /\ Busy(w, "fail_fast")
  /\ results' = [results EXCEPT ![task[w]] = local[w].outcome]
  /\ Goto(w, "idle")
  /\ task' = [task EXCEPT ![w] = NoTask]
  /\ IF ~no_fail_fast /\ is_fail(local[w].outcome)
     THEN fail_fast_errors' = Append(fail_fast_errors, task[w])
     ELSE UNCHANGED fail_fast_errors
  /\ UNCHANGED <<auxVars, refVars, runVars, argVars, main_pc, exit_code, interp_state, holders,
                 current_ts, acquired, main_thread_state, creator, ended,
                 unlocked_ops, interpreter_state, coverage_trace_object,
                 f_result, local, pending, reported, summary>>

\* if !args.no_fail_fast && outcome.is_fail() {
\*   reporter.fail_fast_error(outcome); ... }
\* otherwise the item goes on to collect().
Inspect_FailFast(w) ==
  /\ Busy(w, "fail_fast")
  /\ IF ~no_fail_fast /\ is_fail(local[w].outcome)
     THEN /\ fail_fast_errors' = Append(fail_fast_errors, task[w])
          /\ Goto(w, "exit")
          /\ UNCHANGED <<results, task>>
     ELSE /\ results' = [results EXCEPT ![task[w]] = local[w].outcome]
          /\ Goto(w, "idle")
          /\ task' = [task EXCEPT ![w] = NoTask]
          /\ UNCHANGED fail_fast_errors
  /\ UNCHANGED <<auxVars, refVars, runVars, argVars, main_pc, exit_code, interp_state, holders,
                 current_ts, acquired, main_thread_state, creator, ended,
                 unlocked_ops, interpreter_state, coverage_trace_object,
                 f_result, local, pending, reported, summary>>

\* process::exit(1): the whole process stops here, no destructor runs.
Exit(w) ==
  /\ Busy(w, "exit")
  /\ exit_code' = "exit(1)"
  /\ UNCHANGED <<auxVars, refVars, runVars, argVars, reportVars, workerVars, main_pc,
                 interp_state, holders, current_ts, acquired,
                 main_thread_state, creator, ended, unlocked_ops>>

Worker(w) ==
  \/ TakeTest(w) \/ TakeFile(w)
  \/ New_RestoreThread(w) \/ New_Create(w) \/ New_SaveThread(w)
  \/ EnableCoverage_Restore(w) \/ EnableCoverage_Collect(w)
  \/ EnableCoverage_Save(w)
  \/ Run_Restore(w) \/ Run_Call(w) \/ Run_Save(w)
  \/ GetCoverage_Restore(w) \/ GetCoverage_Take(w) \/ GetCoverage_Save(w)
  \/ Drop_Restore(w) \/ Drop_End(w)
  \/ Inspect_Result(w) \/ Inspect_FailFast(w) \/ Exit(w)

NextSched ==
  \/ Initialize_Py \/ Initialize_ImportDecimal \/ Initialize_Swap
  \/ Collect \/ Summary \/ CoverageSummary
  \/ DropInterpreter_Restore \/ DropInterpreter_Finalize
  \/ \E w \in Workers : Worker(w)

\* --------------------------------- captured output (python/operations.rs)
Streams == {"stdout", "stderr"}

\* The pieces of text a test body prints.
Chunks == {<<"a">>, <<"b">>}

\* The stream a new interpreter starts with: it has no getvalue.
Console == [buffer |-> FALSE, text |-> <<>>]

\* io.StringIO holding text.
StringIO(text) == [buffer |-> TRUE, text |-> text]

NoneText == [some |-> FALSE, text |-> <<>>]
SomeText(text) == [some |-> TRUE, text |-> text]
NoOutput == [stdout |-> NoneText, stderr |-> NoneText, built |-> FALSE]

\* Mutant: every test is run in the main interpreter, so import_module(c"sys")
\* finds the same sys module for all of them.
SysOf_shared(t) == MainInterpreter

\* Each test is run inside a SubInterpreter of its own, between the
\* PyEval_RestoreThread and PyEval_SaveThread of SubInterpreter::run:
\* import_module(c"sys") finds the sys module of that sub-interpreter.
SysOf(t) == t

\* capture_output: sys.stdout and sys.stderr become two new io.StringIO().
capture_output(i) ==
  sys' = [sys EXCEPT ![i] = [stdout |-> StringIO(<<>>), stderr |-> StringIO(<<>>)]]

\* stream.getvalue(): .ok() of the call, None when the stream has no getvalue.
getvalue(stream) == IF stream.buffer THEN SomeText(stream.text) ELSE NoneText

\* get_captured_output: (stdout_value, stderr_value)
get_captured_output(i) ==
  [stdout |-> getvalue(sys[i].stdout), stderr |-> getvalue(sys[i].stderr),
   built |-> TRUE]

\* stream.write(chunk): a StringIO appends, the console keeps nothing.
write(stream, chunk) ==
  IF stream.buffer THEN StringIO(stream.text \o chunk) ELSE stream

InitCap ==
  /\ sys = [i \in Interpreters |-> [stdout |-> Console, stderr |-> Console]]
  /\ cap_pc = [t \in Tests |-> "idle"]
  /\ writes = <<>>
  /\ error_output = [t \in Tests |-> NoOutput]

\* compile_file, at the head of execute_file: the capture is armed in the
\* interpreter of the test before any code of the test's file runs.  At
\* most one test per worker thread is under way.
CompileFile_Capture(t) ==
  /\ cap_pc[t] = "idle"
  /\ Cardinality({u \in Tests : cap_pc[u] = "call"}) < NumWorkers
  /\ capture_output(SysOf(t))
  /\ cap_pc' = [cap_pc EXCEPT ![t] = "call"]
  /\ UNCHANGED <<capOthers, writes, error_output>>

\* function.call() / method.call(): the running test prints a chunk to
\* sys.stdout or sys.stderr of its interpreter.
PrintChunk(t) ==
  /\ cap_pc[t] = "call"
  /\ Len(writes) < MaxWrites
  /\ \E s \in Streams, c \in Chunks :
       /\ sys' = [sys EXCEPT ![SysOf(t)][s] = write(@, c)]
       /\ writes' = Append(writes, [test |-> t, stream |-> s, text |-> c])
  /\ UNCHANGED <<capOthers, cap_pc, error_output>>

\* Err(error) => Error::from(error): the test failed and its Error stores
\* what get_captured_output returns at that moment.
ErrorFrom(t) ==
  /\ cap_pc[t] = "call"
  /\ error_output' = [error_output EXCEPT ![t] = get_captured_output(SysOf(t))]
  /\ cap_pc' = [cap_pc EXCEPT ![t] = "done"]
  /\ UNCHANGED <<capOthers, sys, writes>>

\* Ok(_) => Pass: no Error is built, the buffers are never read.
ReturnPass(t) ==
  /\ cap_pc[t] = "call"
  /\ cap_pc' = [cap_pc EXCEPT ![t] = "done"]
  /\ UNCHANGED <<capOthers, sys, writes, error_output>>

NextCapture ==
  \E t \in Tests :
    CompileFile_Capture(t) \/ PrintChunk(t) \/ ErrorFrom(t) \/ ReturnPass(t)

\* No test is under way: the state of the capture while something else runs.
IdleCap == InitCap

\* ------------------------------------------ trace function (coverage.rs)
\* File names, as character sequences so that the prefix tests of
\* should_trace_file are computed.
TestFile == <<"/", "t">>
HelperFile == <<"/", "h">>
SyntheticFile == <<"<", "s">>
StdlibFile == <<"/", "l", "o">>

\* code_object.co_filename: the string objects that name the files of the
\* code objects; two different string objects may hold the same name.
co_filename == <<TestFile, TestFile, HelperFile, SyntheticFile, StdlibFile>>
FilePointers == 1..Len(co_filename)

\* The standard library path a TraceObject can be built with.
StdlibPaths == {<<"/", "l">>, <<"/", "h">>}

LineNumbers == 1..MaxLine
MaxExtractions == 2

\* Lines::default(): the map without keys.
EmptyLines == [f \in {} |-> {}]

\* Lines::add_file: self.0.insert(file_name, line_numbers)
add_file(all, file, lines) ==
  [f \in DOMAIN all \cup {file} |-> IF f = file THEN lines ELSE all[f]]

\* Mutant: take_existing_lines that loads nothing for a file seen before.
take_existing_lines_fresh(all, file) == [taken |-> {}, rest |-> all]

\* Lines::take_existing_lines: the set under the key, which is left empty;
\* the empty set when the key is absent.
take_existing_lines(all, file) ==
  IF file \in DOMAIN all
  THEN [taken |-> all[file], rest |-> [all EXCEPT ![file] = {}]]
  ELSE [taken |-> {}, rest |-> all]

NoCurrent == [some |-> FALSE, file |-> <<>>, lines |-> {}]
SomeCurrent(file, lines) == [some |-> TRUE, file |-> file, lines |-> lines]

\* No TraceObject: SubInterpreter.coverage_trace_object is None.
NoTracer ==
  [py |-> FALSE, possible_function_change |-> FALSE,
   current_file_pointer |-> NULL, current |-> NoCurrent,
   all_files |-> EmptyLines, standard_library_path |-> <<>>]

\* TraceObject::new
TraceObject_new(path) ==
  [py |-> TRUE, possible_function_change |-> FALSE,
   current_file_pointer |-> NULL, current |-> NoCurrent,
   all_files |-> EmptyLines, standard_library_path |-> path]

\* TraceObject::save_current_file: mem::take(&mut self.current)
save_current_file(c) ==
  IF c.current.some
  THEN [c EXCEPT !.current = NoCurrent,
                 !.all_files = IF c.current.lines # {}
                               THEN add_file(@, c.current.file, c.current.lines)
                               ELSE @]
  ELSE c

\* Mutant: should_trace_file without its two prefix tests.
should_trace_file_any(c, file_name) == TRUE

\* TraceObject::should_trace_file
should_trace_file(c, file_name) ==
  LET is_real_file == ~starts_with(file_name, <<"<">>)
      is_not_stdlib == ~starts_with(file_name, c.standard_library_path)
  IN is_real_file /\ is_not_stdlib

\* Mutant: finish that returns all_files and forgets the current file.
finish_without_current(c) == c.all_files

\* TraceObject::finish
finish(c) ==
  IF c.current.some /\ c.current.lines # {}
  THEN add_file(c.all_files, c.current.file, c.current.lines)
  ELSE c.all_files

\* Mutant: only a return or an exception announces a change of function.
function_boundary_no_call(what) ==
  what \in {"PyTrace_RETURN", "PyTrace_EXCEPTION"}

\* trace_function: PyTrace_CALL | PyTrace_RETURN | PyTrace_EXCEPTION
function_boundary(what) ==
  what \in {"PyTrace_CALL", "PyTrace_RETURN", "PyTrace_EXCEPTION"}

\* trace_function, first half: if coverage.possible_function_change { ... }
recheck_file(c, pointer) ==
  IF c.possible_function_change
  THEN LET changed ==
             IF c.current_file_pointer # pointer
             THEN LET saved == save_current_file(c)
                      filename == co_filename[pointer]
                      existing == take_existing_lines(saved.all_files, filename)
                  IN IF should_trace_file(saved, filename)
                     THEN [saved EXCEPT !.current = SomeCurrent(filename, existing.taken),
                                        !.all_files = existing.rest]
                     ELSE [saved EXCEPT !.current = NoCurrent]
             ELSE c
       IN [changed EXCEPT !.current_file_pointer = pointer,
                          !.possible_function_change = FALSE]
  ELSE c

\* trace_function(obj, frame, what, _arg): pointer is the co_filename of the
\* frame's code object, line_number its PyFrame_GetLineNumber.
trace_function(c, pointer, what, line_number) ==
  LET checked == recheck_file(c, pointer)
  IN IF function_boundary(what)
     THEN [checked EXCEPT !.possible_function_change = TRUE]
     ELSE IF what = "PyTrace_LINE" /\ checked.current.some
          THEN [checked EXCEPT !.current.lines = @ \cup {line_number}]
          ELSE checked

InitCov ==
  /\ tracer = NoTracer
  /\ installed = FALSE
  /\ frames = <<>>
  /\ line_events = {}
  /\ extractions = <<>>

\* coverage::enable_collection: builds the TraceObject with the standard
\* library path of the interpreter and installs trace_function with it.
enable_collection(path) ==
  /\ tracer' = TraceObject_new(path)
  /\ installed' = TRUE

\* SubInterpreter::enable_coverage, called before any Python code runs.
EnableCoverage ==
  /\ ~tracer.py /\ extractions = <<>> /\ frames = <<>>
  /\ \E path \in StdlibPaths : enable_collection(path)
  /\ UNCHANGED <<covOthers, frames, line_events, extractions>>

\* coverage::get_executed_lines: removes the trace function from the
\* interpreter (installed) and returns what the TraceObject has collected.
get_executed_lines(c) == [lines |-> finish(c), installed |-> FALSE]

\* SubInterpreter::get_coverage: mem::take(&mut self.coverage_trace_object)
\* .as_ref().map(coverage::get_executed_lines), called between two runs of
\* Python code.
GetCoverage ==
  /\ tracer.py \/ extractions # <<>>
  /\ frames = <<>>
  /\ Len(extractions) < MaxExtractions
  /\ extractions' = Append(extractions,
       IF tracer.py
       THEN [some |-> TRUE, lines |-> get_executed_lines(tracer).lines]
       ELSE [some |-> FALSE, lines |-> EmptyLines])
  /\ installed' = IF tracer.py THEN get_executed_lines(tracer).installed
                  ELSE installed
  /\ tracer' = NoTracer
  /\ UNCHANGED <<covOthers, frames, line_events>>

\* The interpreter raises a trace event for the frame on top of the stack:
\* trace_function runs when it is installed.
TraceEvent(pointer, what, line_number) ==
  /\ tracer' = IF installed
               THEN trace_function(tracer, pointer, what, line_number)
               ELSE tracer
  /\ line_events' = IF installed /\ what = "PyTrace_LINE"
                    THEN line_events \cup {<<co_filename[pointer], line_number>>}
                    ELSE line_events

Running == tracer.py \/ extractions # <<>>

\* A function (or module body) of some file is entered.
Trace_Call ==
  /\ Running /\ Len(frames) < MaxDepth
  /\ \E pointer \in FilePointers :
       /\ frames' = Append(frames, pointer)
       /\ TraceEvent(pointer, "PyTrace_CALL", 0)
  /\ UNCHANGED <<covOthers, installed, extractions>>

\* A line of the running frame is about to execute.
Trace_Line ==
  /\ Running /\ frames # <<>>
  /\ \E line_number \in LineNumbers :
       TraceEvent(frames[Len(frames)], "PyTrace_LINE", line_number)
  /\ UNCHANGED <<covOthers, installed, frames, extractions>>

\* An exception is seen in the running frame.
Trace_Exception ==
  /\ Running /\ frames # <<>>
  /\ TraceEvent(frames[Len(frames)], "PyTrace_EXCEPTION", 0)
  /\ UNCHANGED <<covOthers, installed, frames, extractions>>

\* The running frame returns (or is unwound) to its caller.
Trace_Return ==
  /\ Running /\ frames # <<>>
  /\ TraceEvent(frames[Len(frames)], "PyTrace_RETURN", 0)
  /\ frames' = SubSeq(frames, 1, Len(frames) - 1)
  /\ UNCHANGED <<covOthers, installed, extractions>>

NextCov ==
  \/ EnableCoverage \/ GetCoverage
  \/ Trace_Call \/ Trace_Line \/ Trace_Exception \/ Trace_Return

\* No coverage is collected: the state of the tracer while something else runs.
IdleCov == InitCov

\* ------------------------------------ TestSummary::from_par_iter (main.rs)
\* Option<coverage::Lines>
NoLines == [some |-> FALSE, lines |-> EmptyLines]
SomeLines(lines) == [some |-> TRUE, lines |-> lines]

\* The Lines a test can come back with: some of the lines of some files.
CoveredFiles == {TestFile, HelperFile}
LinesMaps ==
  UNION {[fs -> (SUBSET LineNumbers) \ {{}}] : fs \in SUBSET CoveredFiles}
OptionLines == {NoLines} \cup {SomeLines(m) : m \in LinesMaps}

\* cov.unwrap().0.into_iter(): the entries of one map, one after the other.
RECURSIVE into_iter(_)
into_iter(lines) ==
  IF DOMAIN lines = {} THEN <<>>
  ELSE LET f == CHOOSE f \in DOMAIN lines : TRUE
       IN <<[file |-> f, lines |-> lines[f]]>>
          \o into_iter([g \in DOMAIN lines \ {f} |-> lines[g]])

\* .filter(Option::is_some).flat_map_iter(|cov| cov.unwrap().0.into_iter())
\* .collect(): the entries of every Some, in the order of the iterator.
RECURSIVE flat_map_iter(_)
flat_map_iter(coverages) ==
  IF coverages = <<>> THEN <<>>
  ELSE (IF Head(coverages).some THEN into_iter(Head(coverages).lines) ELSE <<>>)
       \o flat_map_iter(Tail(coverages))

\* Mutant: self.0.insert(file, lines), the entry is replaced.
extend_entry_insert(all, file, lines) ==
  [f \in DOMAIN all \cup {file} |-> IF f = file THEN lines ELSE all[f]]

\* self.0.entry(file).or_default().extend(lines)
extend_entry(all, file, lines) ==
  [f \in DOMAIN all \cup {file} |->
     IF f = file
     THEN (IF f \in DOMAIN all THEN all[f] ELSE {}) \cup lines
     ELSE all[f]]

\* for (file, lines) in items { ... }
RECURSIVE extend_entries(_, _)
extend_entries(all, entries) ==
  IF entries = <<>> THEN all
  ELSE extend_entries(extend_entry(all, Head(entries).file, Head(entries).lines),
                      Tail(entries))

\* impl ParallelExtend<Option<Lines>> for Lines
par_extend(all, coverages) == extend_entries(all, flat_map_iter(coverages))

\* Mutant: the last arm counts nothing, `_ => {}`.
tally_step_no_default(counts, kind) ==
  IF kind = "Pass" THEN [counts EXCEPT !.passed = @ + 1]
  ELSE IF kind = "Skip" THEN [counts EXCEPT !.skipped = @ + 1]
  ELSE counts

\* match test.outcome { Pass => passed += 1, Skip => skipped += 1,
\*                      _ => failed += 1 }
tally_step(counts, kind) ==
  IF kind = "Pass" THEN [counts EXCEPT !.passed = @ + 1]
  ELSE IF kind = "Skip" THEN [counts EXCEPT !.skipped = @ + 1]
  ELSE [counts EXCEPT !.failed = @ + 1]

\* for test in &tests { ... }
RECURSIVE tally(_, _)
tally(counts, tests) ==
  IF tests = <<>> THEN counts
  ELSE tally(tally_step(counts, Head(tests).outcome), Tail(tests))

NoTestSummary ==
  [built |-> FALSE, passed |-> 0, skipped |-> 0, failed |-> 0,
   tests |-> <<>>, executed_lines |-> EmptyLines]

\* TestSummary::from_par_iter: unzip the items into the outcomes and the
\* merged Lines, then count the outcomes.
from_par_iter(its) ==
  LET tests == [i \in 1..Len(its) |->
                  [test |-> its[i].test, outcome |-> its[i].outcome]]
      executed_lines ==
        par_extend(EmptyLines, [i \in 1..Len(its) |-> its[i].coverage])
      counts == tally([passed |-> 0, skipped |-> 0, failed |-> 0], tests)
  IN [built |-> TRUE, passed |-> counts.passed, skipped |-> counts.skipped,
      failed |-> counts.failed, tests |-> tests,
      executed_lines |-> executed_lines]

\* The items of a run: one per discovered test, whatever its outcome and
\* its coverage, in any order.
InitSum ==
  /\ \E n \in 0..NumTests :
       \E order \in Permutations(1..n) :
         \E kinds \in [1..n -> Kinds], covs \in [1..n -> OptionLines] :
           items = [i \in 1..n |->
                      [test |-> order[i], outcome |-> kinds[i], coverage |-> covs[i]]]
  /\ test_summary = NoTestSummary

\* .collect() into a TestSummary
FromParIter ==
  /\ ~test_summary.built
  /\ test_summary' = from_par_iter(items)
  /\ UNCHANGED <<sumOthers, items>>

NextSum == FromParIter

\* Nothing is collected: the state of the summary while something else runs.
IdleSum ==
  /\ items = <<>>
  /\ test_summary = NoTestSummary

\* ------------------------------------------------------ JSONReporter
\* std::time::Duration, as serde writes it
Durations == {[secs |-> 0, nanos |-> 5], [secs |-> 1, nanos |-> 0]}

\* python::Error values carried by an outcome
ReportedErrors ==
  { [kind |-> AssertionErrorName, message |-> "msg"],
    [kind |-> TypeErrorName, message |-> "msg"] }

\* enum OutcomeKind: every variant with the fields it has, and no others.
OutcomeKinds ==
  {[kind |-> "Pass", time |-> t] : t \in Durations}
    \cup {[kind |-> "Skip", reason |-> r] : r \in {"", "r"}}
    \cup {[kind |-> "Fail", error |-> e, time |-> t] :
            e \in ReportedErrors, t \in Durations}
    \cup {[kind |-> "Error", error |-> e, time |-> t] :
            e \in ReportedErrors, t \in Durations}
    \cup {[kind |-> "ModuleError", error |-> e] : e \in ReportedErrors}
    \cup {[kind |-> "ExpectedFailure", time |-> t] : t \in Durations}
    \cup {[kind |-> "TestNotFound"]}

\* Option<T>
None == [tag |-> "None"]
Some(v) == [tag |-> "Some", value |-> v]

\* TestOutcome::time
TestOutcome_time(test) ==
  IF test.outcome.kind \in {"Pass", "Fail", "Error", "ExpectedFailure"}
  THEN Some(test.outcome.time)
  ELSE None

\* Mutant: a ModuleError carries no error into the report.
TestOutcome_error_tests_only(test) ==
  IF test.outcome.kind \in {"Fail", "Error"}
  THEN Some(test.outcome.error)
  ELSE None

\* TestOutcome::error
TestOutcome_error(test) ==
  IF test.outcome.kind \in {"Fail", "Error", "ModuleError"}
  THEN Some(test.outcome.error)
  ELSE None

\* impl From<&OutcomeKind> for Outcome
Outcome_from(kind) ==
  CASE kind.kind = "Pass" -> "Pass"
    [] kind.kind = "Skip" -> "Skip"
    [] kind.kind \in {"Fail", "Error"} -> "Fail"
    [] kind.kind = "ExpectedFailure" -> "ExpectedFailure"
    [] kind.kind \in {"ModuleError", "TestNotFound"} -> "NonTestFail"

\* impl From<&TestOutcome> for JSONTestOutput
JSONTestOutput_from(test) ==
  [file |-> test.file,
   test_identifier |-> test.identifier,
   outcome |-> Outcome_from(test.outcome),
   error |-> TestOutcome_error(test),
   time |-> TestOutcome_time(test)]

\* serde_json::to_writer under #[derive(Serialize)] of JSONTestOutput: the
\* JSON object, a value per key; `error` and `time` are left out when None
\* (skip_serializing_if = "Option::is_none").
to_writer(result) ==
  LET keys == {"file", "test_identifier", "outcome"}
                \cup (IF result.error = None THEN {} ELSE {"error"})
                \cup (IF result.time = None THEN {} ELSE {"time"})
  IN [k \in keys |->
        CASE k = "file" -> result.file
          [] k = "test_identifier" -> result.test_identifier
          [] k = "outcome" -> result.outcome
          [] k = "error" -> result.error.value
          [] k = "time" -> result.time.value]

\* The outcomes of a run, as the parallel iterator hands them to the
\* reporter: any outcome for each test, in any order.
InitJson ==
  /\ \E n \in 0..NumTests :
       \E order \in Permutations(1..n) :
         \E kinds \in [1..n -> OutcomeKinds] :
           outcomes = [i \in 1..n |->
                         [file |-> 1, identifier |-> order[i],
                          outcome |-> kinds[i]]]
  /\ json_lines = <<>>

\* JSONReporter::result, on the next outcome
JSONReporter_result ==
  /\ Len(json_lines) < Len(outcomes)
  /\ LET result == JSONTestOutput_from(outcomes[Len(json_lines) + 1])
     IN json_lines' = Append(json_lines, to_writer(result))
  /\ UNCHANGED <<jsonOthers, outcomes>>

NextJson == JSONReporter_result

\* Nothing is reported: the state of the reporter while something else runs.
IdleJson ==
  /\ outcomes = <<>>
  /\ json_lines = <<>>

\* --------------------------------------------------- Traceback::from
\* Py_None, the value of tb_next in the last traceback object
Py_None == 0

\* The Python frames an exception can pass through: the code object's name
\* and file, and the line the frame is at.
PyFrames ==
  { [co_name |-> n, co_filename |-> f, f_lineno |-> l] :
      n \in {"test_fails", "helper"}, f \in {TestFile}, l \in LineNumbers }

NoTraceback == None

\* PyObject::get_attr_cstr on a traceback object or on None: None has none
\* of tb_frame, tb_lineno, tb_next and the lookup raises AttributeError.
tb_get_attr_cstr(self, attribute) ==
  IF self \in 1..Len(tb_nodes)
  THEN [ok |-> TRUE, value |-> tb_nodes[self][attribute]]
  ELSE [ok |-> FALSE, value |-> NULL]

\* PyError::get_traceback: PyException_GetTraceback, NULL becomes None
get_traceback == IF exc_traceback = NULL THEN None ELSE Some(exc_traceback)

\* The TracebackFrame add_frame pushes for a traceback object: tb_lineno,
\* and co_name and co_filename of tb_frame.f_code.
TracebackFrame(frame) ==
  LET tb_frame == stack[tb_get_attr_cstr(frame, "tb_frame").value]
  IN [line |-> tb_get_attr_cstr(frame, "tb_lineno").value,
      function |-> tb_frame.co_name,
      file |-> tb_frame.co_filename]

\* An exception is raised in the innermost of 0..MaxChain Python frames (in
\* none when the interpreter raises before a frame of the callee exists).
InitTb ==
  /\ \E n \in 0..MaxChain : stack \in [1..n -> PyFrames]
  /\ unwound = 0
  /\ tb_nodes = <<>>
  /\ exc_traceback = NULL
  /\ tb_pc = "raised"
  /\ cursor = NULL
  /\ traceback = NoTraceback

\* The interpreter unwinds one frame: a traceback object for the frame is
\* put in front of the exception's chain.
Unwind ==
  /\ tb_pc = "raised"
  /\ unwound < Len(stack)
  /\ LET f == Len(stack) - unwound
     IN tb_nodes' = Append(tb_nodes,
          [tb_frame |-> f, tb_lineno |-> stack[f].f_lineno,
           tb_next |-> IF exc_traceback = NULL THEN Py_None ELSE exc_traceback])
  /\ exc_traceback' = Len(tb_nodes) + 1
  /\ unwound' = unwound + 1
  /\ UNCHANGED <<tbOthers, stack, tb_pc, cursor, traceback>>

\* Traceback::from, up to its call of add_frame: no traceback object, no
\* Traceback.
Traceback_from ==
  /\ tb_pc = "raised"
  /\ unwound = Len(stack)
  /\ IF get_traceback = None
     THEN /\ traceback' = NoTraceback
          /\ tb_pc' = "done"
          /\ UNCHANGED cursor
     ELSE /\ traceback' = Some(<<>>)
          /\ cursor' = get_traceback.value
          /\ tb_pc' = "add_frame"
  /\ UNCHANGED <<tbOthers, stack, unwound, tb_nodes, exc_traceback>>

\* Mutant: add_frame pushes its frame and does not follow tb_next.
add_frame_no_next ==
  /\ tb_pc = "add_frame"
  /\ traceback' = Some(Append(traceback.value, TracebackFrame(cursor)))
  /\ tb_pc' = "done"
  /\ UNCHANGED <<tbOthers, stack, unwound, tb_nodes, exc_traceback, cursor>>

\* Traceback::add_frame, one activation. A lookup that fails returns Err: to
\* `.ok()?` in Traceback::from from the first activation, to `_ =` from a
\* nested one. Otherwise the frame is pushed and tb_next, when the lookup
\* succeeds, is the argument of the nested activation; every activation then
\* returns Ok(()).
add_frame ==
  /\ tb_pc = "add_frame"
  /\ IF ~tb_get_attr_cstr(cursor, "tb_frame").ok
     THEN /\ traceback' = IF traceback.value = <<>> THEN NoTraceback ELSE traceback
          /\ tb_pc' = "done"
          /\ UNCHANGED cursor
     ELSE /\ traceback' = Some(Append(traceback.value, TracebackFrame(cursor)))
          /\ IF tb_get_attr_cstr(cursor, "tb_next").ok
             THEN /\ cursor' = tb_get_attr_cstr(cursor, "tb_next").value
                  /\ tb_pc' = "add_frame"
             ELSE /\ tb_pc' = "done"
                  /\ UNCHANGED cursor
  /\ UNCHANGED <<tbOthers, stack, unwound, tb_nodes, exc_traceback>>

NextTb ==
  \/ Unwind
  \/ Traceback_from
  \/ add_frame

\* No exception is being converted: the state while something else runs.
IdleTb ==
  /\ stack = <<>>
  /\ unwound = 0
  /\ tb_nodes = <<>>
  /\ exc_traceback = NULL
  /\ tb_pc = "done"
  /\ cursor = NULL
  /\ traceback = NoTraceback

\* ------------------------------------------------ the raised exception
NoException == <<>>
ExceptionKinds == {AssertionErrorName, TypeErrorName}
SystemErrorName == <<"S","y","s","t","e","m","E","r","r","o","r">>

\* PyError::get: PyErr_GetRaisedException takes the raised exception and
\* clears the indicator; panics when nothing is raised.
PyError_get(raised) ==
  [panic |-> raised = NoException, error |-> raised, indicator |-> NoException]

\* PyObject::from_ptr_or_error: the handle, or the error PyError::get
\* fetches. `raised` is what the native call left raised.
from_ptr_or_error(ptr, raised) ==
  IF ptr # NULL
  THEN [panic |-> FALSE, ok |-> TRUE, indicator |-> raised]
  ELSE [panic |-> PyError_get(raised).panic, ok |-> FALSE,
        indicator |-> PyError_get(raised).indicator]

\* A native call is recorded: the wrapper, whether the call failed, and the
\* exception left raised when the wrapper returns.
Record(wrapper, failed, left) ==
  native_calls' =
    Append(native_calls, [wrapper |-> wrapper, failed |-> failed, left |-> left])

After(result) ==
  /\ indicator' = result.indicator
  /\ exc_pc' = IF result.panic THEN "panicked" ELSE "running"

InitExc ==
  /\ indicator = NoException
  /\ exc_pc = "running"
  /\ native_calls = <<>>

\* PyObject::get_attr / get_attr_cstr: PyObject_GetAttr returns the
\* attribute, or NULL with an exception raised.
Exc_get_attr ==
  /\ exc_pc = "running" /\ Len(native_calls) < MaxCalls
  /\ \/ LET r == from_ptr_or_error(1, indicator)
        IN After(r) /\ Record("get_attr", FALSE, r.indicator)
     \/ \E e \in ExceptionKinds :
          LET r == from_ptr_or_error(NULL, e)
          IN After(r) /\ Record("get_attr", TRUE, r.indicator)
  /\ UNCHANGED excOthers

\* PyObject::call: PyObject_CallNoArgs returns the result, or NULL with an
\* exception raised; a result returned while an exception is raised is
\* turned into NULL and SystemError by the interpreter.
Exc_call ==
  /\ exc_pc = "running" /\ Len(native_calls) < MaxCalls
  /\ \/ /\ indicator = NoException
        /\ LET r == from_ptr_or_error(1, indicator)
           IN After(r) /\ Record("call", FALSE, r.indicator)
     \/ /\ indicator # NoException
        /\ LET r == from_ptr_or_error(NULL, SystemErrorName)
           IN After(r) /\ Record("call", TRUE, r.indicator)
     \/ \E e \in ExceptionKinds :
          LET r == from_ptr_or_error(NULL, e)
          IN After(r) /\ Record("call", TRUE, r.indicator)
  /\ UNCHANGED excOthers

\* PyObject::has_attr: PyObject_HasAttr == 1; the native call clears the
\* exception of a failed lookup itself.
Exc_has_attr ==
  /\ exc_pc = "running" /\ Len(native_calls) < MaxCalls
  /\ \E failed \in BOOLEAN : Record("has_attr", failed, indicator)
  /\ UNCHANGED <<excOthers, indicator, exc_pc>>

\* PyObject::is_truthy: PyObject_IsTrue == 1.  The native call returns 1, 0,
\* or -1 with the exception of __bool__ / __len__ raised; -1 is read as false.
Exc_is_truthy ==
  /\ exc_pc = "running" /\ Len(native_calls) < MaxCalls
  /\ \/ /\ Record("is_truthy", FALSE, indicator)
        /\ UNCHANGED indicator
     \/ \E e \in ExceptionKinds :
          /\ indicator' = e
          /\ Record("is_truthy", TRUE, e)
  /\ UNCHANGED <<excOthers, exc_pc>>

\* PyIter::next: PyIter_Next returns the item, NULL at the end, or NULL with
\* the exception of the iterator raised; both NULLs are read as the end.
Exc_next ==
  /\ exc_pc = "running" /\ Len(native_calls) < MaxCalls
  /\ \/ /\ Record("next", FALSE, indicator)
        /\ UNCHANGED indicator
     \/ \E e \in ExceptionKinds :
          /\ indicator' = e
          /\ Record("next", TRUE, e)
  /\ UNCHANGED <<excOthers, exc_pc>>

\* run::test returns its outcome.
Exc_return ==
  /\ exc_pc = "running"
  /\ exc_pc' = "returned"
  /\ UNCHANGED <<excOthers, indicator, native_calls>>

\* run::test as the native calls it makes through the handles, in any order.
NextExc ==
  \/ Exc_get_attr
  \/ Exc_call
  \/ Exc_has_attr
  \/ Exc_is_truthy
  \/ Exc_next
  \/ Exc_return

\* No test is running.
IdleExc ==
  /\ indicator = NoException
  /\ exc_pc = "returned"
  /\ native_calls = <<>>

\* Nothing is imported yet.
IdleImp == imported = <<>>

\* ----------------------------------------------------- import path
\* Names of directories; the file is t.py.  A path is the sequence of its
\* components from the root, a name the sequence of its characters.
DirNames == {<<"a">>, <<"b">>}
TestFileName == <<"t", ".", "p", "y">>
InitMarker == <<"_", "_", "i", "n", "i", "t", "_", "_", ".", "p", "y">>

\* The last component of a path and the path without it.
last_component(path) == path[Len(path)]
parent(path) == SubSeq(path, 1, Len(path) - 1)

\* The positions of "." in a name.
Dots(name) == {i \in 1..Len(name) : name[i] = "."}
LastDot(name) == CHOOSE i \in Dots(name) : \A j \in Dots(name) : j <= i

\* Path::file_stem and Path::extension of the last component
file_stem(name) ==
  IF Dots(name) = {} THEN name ELSE SubSeq(name, 1, LastDot(name) - 1)
extension(name) ==
  IF Dots(name) = {} THEN <<>> ELSE SubSeq(name, LastDot(name) + 1, Len(name))

\* The absolute path of the test file.
FilePath == Append(tree.dirs, TestFileName)

\* Path::is_dir and Path::exists on the tree: the directories are the
\* prefixes of the file's directory, a marker file exists where tree.inits
\* says so.
is_dir(path) ==
  /\ Len(path) <= Len(tree.dirs)
  /\ path = SubSeq(tree.dirs, 1, Len(path))
exists(path) ==
  \/ is_dir(path)
  \/ path = FilePath
  \/ /\ path # <<>>
     /\ last_component(path) = InitMarker
     /\ is_dir(parent(path))
     /\ Len(parent(path)) \in tree.inits

\* Path::canonicalize: the path given, resolved from the working directory.
canonicalize(file) == file.cwd \o file.path

\* Every directory below the root counts as a package, marker or not.
is_python_module_any_dir(file) ==
  IF ~is_dir(file)
  THEN file # <<>> /\ extension(last_component(file)) = <<"p", "y">>
  ELSE file # <<>>

\* is_python_module: a .py file, or a directory holding __init__.py
is_python_module(file) ==
  IF ~is_dir(file)
  THEN file # <<>> /\ extension(last_component(file)) = <<"p", "y">>
  ELSE exists(Append(file, InitMarker))

\* add_to_sys_modules_path: PyList_Insert(path_list, 0, path)
add_to_sys_modules_path(path, path_list) == <<path>> \o path_list

RECURSIVE add_all_parent_modules_to_path(_, _)
\* add_all_parent_modules_to_path (python.rs): every directory from the
\* file's up to the first that is not a package.
add_all_parent_modules_to_path(file, path_list) ==
  LET added == IF is_dir(file) THEN add_to_sys_modules_path(file, path_list)
               ELSE path_list
  IN IF is_python_module(file) /\ file # <<>>
     THEN add_all_parent_modules_to_path(parent(file), added)
     ELSE added

RECURSIVE add_parent_module_to_path(_, _)
\* add_parent_module_to_path (operations.rs): the lowest parent that is not
\* a package.
add_parent_module_to_path(file, path_list) ==
  IF file = <<>> THEN path_list
  ELSE IF is_python_module(parent(file))
       THEN add_parent_module_to_path(parent(file), path_list)
       ELSE add_to_sys_modules_path(parent(file), path_list)

RECURSIVE calculate_module_name_inner(_, _)
\* calculate_module_name_inner: the names of the packages from the outermost
\* down, then the file stem, joined by '.'.
calculate_module_name_inner(folder, name) ==
  IF ~is_python_module(folder) THEN name
  ELSE LET above == IF folder # <<>>
                    THEN calculate_module_name_inner(parent(folder), name)
                    ELSE name
           dotted == IF above # <<>> THEN Append(above, ".") ELSE above
       IN dotted \o file_stem(last_component(folder))

\* calculate_module_name
calculate_module_name(file) ==
  calculate_module_name_inner(canonicalize(file), <<>>)

\* A test file below up to MaxNesting directories, any of them a package,
\* named by a path relative to any of the directories above it.
InitPath ==
  /\ \E n \in 0..MaxNesting :
       \E dirs \in [1..n -> DirNames], inits \in SUBSET (1..n), k \in 0..n :
         /\ tree = [dirs |-> dirs, inits |-> inits]
         /\ file_arg = [cwd |-> SubSeq(dirs, 1, k),
                        path |-> Append(SubSeq(dirs, k + 1, n), TestFileName)]
  /\ sys_path = <<>>
  /\ module_name = <<>>
  /\ path_pc = "execute_file"

\* execute_file: let module_name = calculate_module_name(file);
Path_execute_file ==
  /\ path_pc = "execute_file"
  /\ module_name' = calculate_module_name(file_arg)
  /\ path_pc' = "compile_file"
  /\ UNCHANGED <<pathOthers, tree, file_arg, sys_path>>

\* compile_file: canonicalize, add_all_parent_modules_to_path, and then
\* Py_CompileString.
Path_compile_file ==
  /\ path_pc = "compile_file"
  /\ sys_path' = add_all_parent_modules_to_path(canonicalize(file_arg), sys_path)
  /\ path_pc' = "exec"
  /\ UNCHANGED <<pathOthers, tree, file_arg, module_name>>

\* execute_file: PyImport_ExecCodeModuleEx(module_name, bytecode, file_name)
Path_exec ==
  /\ path_pc = "exec"
  /\ path_pc' = "done"
  /\ UNCHANGED <<pathOthers, tree, file_arg, sys_path, module_name>>

NextPath ==
  \/ Path_execute_file
  \/ Path_compile_file
  \/ Path_exec

\* No file is being loaded.
IdlePath ==
  /\ tree = [dirs |-> <<>>, inits |-> {}]
  /\ file_arg = [cwd |-> <<>>, path |-> <<TestFileName>>]
  /\ sys_path = <<>>
  /\ module_name = <<>>
  /\ path_pc = "done"

\* ------------------------------------------ find_tests (discovery.rs)
NumWalkers == 2
NumEntries == 4

\* builder.threads(available_parallelism): the walker threads.
Walkers == 1..NumWalkers
NoWalker == 0

\* The entries the parallel walk yields, each given to one visitor.
WalkEntries == 1..NumEntries

\* path.is_file() && path.extension().unwrap_or_default() == "py": of
\* every three entries the third is a directory or another kind of file.
is_python_file(entry) == entry % 3 # 0

\* get_test_methods: the tests pushed for a file, in the order of its
\* statements; of every three entries the first holds a test function and
\* a test method, the second cannot be parsed or holds no test.
get_test_methods(entry) ==
  IF entry % 3 = 1
  THEN <<[file |-> entry, function |-> "test_a"],
         [file |-> entry, function |-> "test_b"]>>
  ELSE <<>>

\* No TestFinder has been built for the thread yet.
NoFinder == [at |-> "none", file_count |-> 0, tests |-> <<>>]

\* DiscoveredTests::new
DiscoveredTests_new == [tests |-> <<>>, test_count |-> 0, file_count |-> 0]

\* find_tests up to walker.visit(&mut local_file_builder)
InitDisc ==
  /\ walk_entries = WalkEntries
  /\ finder = [w \in Walkers |-> NoFinder]
  /\ global_state = DiscoveredTests_new
  /\ state_lock = NoWalker
  /\ disc_pc = "visit"

\* TestFinderBuilder::build, once in every walker thread.
Build(w) ==
  /\ disc_pc = "visit" /\ finder[w].at = "none"
  /\ finder' = [finder EXCEPT ![w] = [at |-> "visiting", file_count |-> 0,
                                      tests |-> <<>>]]
  /\ UNCHANGED <<discOthers, walk_entries, global_state, state_lock, disc_pc>>

\* TestFinder::visit: the thread takes an entry of the walk.
Visit(w) ==
  /\ finder[w].at = "visiting"
  /\ \E entry \in walk_entries :
       /\ walk_entries' = walk_entries \ {entry}
       /\ finder' = IF is_python_file(entry)
                    THEN [finder EXCEPT
                            ![w].file_count = @ + 1,
                            ![w].tests = @ \o get_test_methods(entry)]
                    ELSE finder
  /\ UNCHANGED <<discOthers, global_state, state_lock, disc_pc>>

\* Mutant: drop without the Mutex, the shared result is updated unguarded.
Drop_lock_unguarded(w) ==
  /\ finder[w].at = "visiting" /\ walk_entries = {}
  /\ finder' = [finder EXCEPT ![w].at = "extend"]
  /\ UNCHANGED <<discOthers, walk_entries, global_state, state_lock, disc_pc>>

\* Drop for TestFinder, when the walk has no entry left for the thread:
\* let mut global_state = self.global.lock().unwrap();
Drop_lock(w) ==
  /\ finder[w].at = "visiting" /\ walk_entries = {}
  /\ state_lock = NoWalker
  /\ state_lock' = w
  /\ finder' = [finder EXCEPT ![w].at = "extend"]
  /\ UNCHANGED <<discOthers, walk_entries, global_state, disc_pc>>

\* global_state.tests.extend_from_slice(&self.tests);
Drop_extend(w) ==
  /\ finder[w].at = "extend"
  /\ global_state' = [global_state EXCEPT !.tests = @ \o finder[w].tests]
  /\ finder' = [finder EXCEPT ![w].at = "file_count"]
  /\ UNCHANGED <<discOthers, walk_entries, state_lock, disc_pc>>

\* global_state.file_count += self.file_count;
Drop_file_count(w) ==
  /\ finder[w].at = "file_count"
  /\ global_state' = [global_state EXCEPT !.file_count = @ + finder[w].file_count]
  /\ finder' = [finder EXCEPT ![w].at = "test_count"]
  /\ UNCHANGED <<discOthers, walk_entries, state_lock, disc_pc>>

\* global_state.test_count += self.tests.len(); and the guard is dropped.
Drop_test_count(w) ==
  /\ finder[w].at = "test_count"
  /\ global_state' = [global_state EXCEPT !.test_count = @ + Len(finder[w].tests)]
  /\ finder' = [finder EXCEPT ![w].at = "dropped"]
  /\ state_lock' = NoWalker
  /\ UNCHANGED <<discOthers, walk_entries, disc_pc>>

\* walker.visit returns when every thread has ended; state.into_inner()
into_inner ==
  /\ disc_pc = "visit"
  /\ \A w \in Walkers : finder[w].at = "dropped"
  /\ disc_pc' = "done"
  /\ UNCHANGED <<discOthers, walk_entries, finder, global_state, state_lock>>

NextDisc ==
  \/ \E w \in Walkers :
       \/ Build(w) \/ Visit(w)
       \/ Drop_lock(w) \/ Drop_extend(w) \/ Drop_file_count(w)
       \/ Drop_test_count(w)
  \/ into_inner

\* Nothing is being discovered.
IdleDisc ==
  /\ walk_entries = {}
  /\ finder = [w \in Walkers |-> NoFinder]
  /\ global_state = DiscoveredTests_new
  /\ state_lock = NoWalker
  /\ disc_pc = "done"

\* The scheduler alone: run::test is the black box behind Run_Call.
IdleRun ==
  /\ test_kind = "Function"
  /\ hooks = {}
  /\ pc = "done"
  /\ object = NoObject
  /\ expecting_failure = FALSE
  /\ test_result = NoResult
  /\ skip_reason = NoSkip
  /\ outcome = NoOutcome
  /\ trace = <<>>

InitMain ==
  /\ InitSched /\ IdleRun /\ IdleRef /\ IdleCap /\ IdleCov /\ IdleSum
  /\ IdleJson /\ IdleTb /\ IdleExc /\ IdleImp /\ IdlePath /\ IdleDisc

SpecSched == InitMain /\ [][NextSched]_vars

\* run::test alone, inside one worker: the scheduler stands still.
IdleSched ==
  /\ InitSched
  /\ discovered = Tests
  /\ no_fail_fast = FALSE
  /\ coverage_enabled = FALSE

NextRun ==
  \/ ExecuteFile
  \/ test_function
  \/ test_method

InitTest ==
  /\ InitRun /\ IdleSched /\ IdleRef /\ IdleCap /\ IdleCov /\ IdleSum
  /\ IdleJson /\ IdleTb /\ IdleExc /\ IdleImp /\ IdlePath /\ IdleDisc

SpecRun == InitTest /\ [][NextRun]_vars

\* The handles alone: any sequence of handle operations.
InitHandles ==
  /\ InitRef /\ IdleRun /\ IdleSched /\ IdleCap /\ IdleCov /\ IdleSum
  /\ IdleJson /\ IdleTb /\ IdleExc /\ IdleImp /\ IdlePath /\ IdleDisc

SpecRef == InitHandles /\ [][NextRef]_vars

\* The captured output alone: tests run side by side, each printing and
\* then failing or passing.
InitCapture ==
  /\ InitCap /\ IdleRun /\ IdleSched /\ IdleRef /\ IdleCov /\ IdleSum
  /\ IdleJson /\ IdleTb /\ IdleExc /\ IdleImp /\ IdlePath /\ IdleDisc

SpecCapture == InitCapture /\ [][NextCapture]_vars

\* The trace function alone: one sub-interpreter with coverage enabled runs
\* Python code and has its coverage extracted.
InitCoverage ==
  /\ InitCov /\ IdleRun /\ IdleSched /\ IdleRef /\ IdleCap /\ IdleSum
  /\ IdleJson /\ IdleTb /\ IdleExc /\ IdleImp /\ IdlePath /\ IdleDisc

SpecCov == InitCoverage /\ [][NextCov]_vars

\* The aggregation alone: any list of items is collected into a summary.
InitSummary ==
  /\ InitSum /\ IdleRun /\ IdleSched /\ IdleRef /\ IdleCap /\ IdleCov
  /\ IdleJson /\ IdleTb /\ IdleExc /\ IdleImp /\ IdlePath /\ IdleDisc

SpecSum == InitSummary /\ [][NextSum]_vars

\* The JSON reporter alone: the outcomes of a run are reported one by one.
InitReport ==
  /\ InitJson /\ IdleRun /\ IdleSched /\ IdleRef /\ IdleCap /\ IdleCov
  /\ IdleSum /\ IdleTb /\ IdleExc /\ IdleImp /\ IdlePath /\ IdleDisc

SpecJson == InitReport /\ [][NextJson]_vars

\* The conversion of one exception alone. Traceback::from is sequential code
\* that runs to its return, hence the fairness.
InitTraceback ==
  /\ InitTb /\ IdleRun /\ IdleSched /\ IdleRef /\ IdleCap /\ IdleCov
  /\ IdleSum /\ IdleJson /\ IdleExc /\ IdleImp /\ IdlePath /\ IdleDisc

SpecTb == InitTraceback /\ [][NextTb]_vars /\ WF_vars(NextTb)

\* The raised exception alone: the native calls of one run::test.
InitException ==
  /\ InitExc /\ IdleRun /\ IdleSched /\ IdleRef /\ IdleCap /\ IdleCov
  /\ IdleSum /\ IdleJson /\ IdleTb /\ IdleImp /\ IdlePath /\ IdleDisc

SpecExc == InitException /\ [][NextExc]_vars

\* The import path alone: one file is loaded.
InitImportPath ==
  /\ InitPath /\ IdleRun /\ IdleSched /\ IdleRef /\ IdleCap /\ IdleCov
  /\ IdleSum /\ IdleJson /\ IdleTb /\ IdleExc /\ IdleImp /\ IdleDisc

SpecPath == InitImportPath /\ [][NextPath]_vars

\* Discovery alone: the walker threads of one find_tests call.
InitDiscovery ==
  /\ InitDisc /\ IdleRun /\ IdleSched /\ IdleRef /\ IdleCap /\ IdleCov
  /\ IdleSum /\ IdleJson /\ IdleTb /\ IdleExc /\ IdleImp /\ IdlePath

SpecDisc == InitDiscovery /\ [][NextDisc]_vars

\* ------------------------------------------------- properties of run::test

\* The object carries neither a skip nor an expected-failure marker: no
\* truthy unittest attribute and no skip / skipIf / xfail entry in its list.
NoMarkers(o) ==
  /\ o.skip # "truthy"
  /\ o.xfail # "truthy"
  /\ \A i \in 1..Len(o.marks) : o.marks[i].name \notin {"skip", "skipIf", "xfail"}

\* The test body was invoked and no hook raised: the run reached the final
\* classification of the body's result.
BodyClassified ==
  /\ pc = "done"
  /\ Called("call")
  /\ ~Raised("setUp")
  /\ ~Raised("tearDown")

\* C1 as stated: for a test without skip / expected-failure markers whose
\* module loads, whose target resolves and whose hooks do not raise, a normal
\* return is Pass, an AssertionError is Fail and ANY other exception is Error.
C1_AnyOtherExceptionIsError ==
  (BodyClassified /\ NoMarkers(object)) =>
    outcome.kind = IF test_result.ok THEN "Pass"
                   ELSE IF test_result.error.kind = AssertionErrorName THEN "Fail"
                   ELSE "Error"

\* C1 amended: as C1, except that an exception whose class name starts with
\* "Skip" yields Skip with the exception's message as reason; Error is the
\* outcome of every other non-assertion exception.
C1_OutcomeOfUnmarkedTest ==
  (BodyClassified /\ NoMarkers(object)) =>
    outcome = IF test_result.ok THEN Pass
              ELSE IF starts_with(test_result.error.kind, SkipPrefix)
                   THEN Skip(test_result.error.message)
                   ELSE IF test_result.error.kind = AssertionErrorName
                        THEN Fail(test_result.error)
                        ELSE Error(test_result.error)

\* C1 witness: an unmarked method test with both hooks whose body raised a
\* TypeError and was reported as Error.
C1_Witness ==
  /\ BodyClassified /\ NoMarkers(object)
  /\ test_kind = "Method" /\ Called("setUp") /\ Called("tearDown")
  /\ test_result = Err([kind |-> TypeErrorName, message |-> "msg"])
  /\ outcome.kind = "Error"

\* C2 as stated: for every test evaluated as expecting failure whose body was
\* invoked, a normal return is ExpectedFailure and any exception is Pass
\* (so never Fail nor Error), with no condition on the hooks.
C2_StrictInversion ==
  (pc = "done" /\ expecting_failure /\ Called("call")) =>
    outcome = IF test_result.ok THEN ExpectedFailure ELSE Pass

\* C2 amended: the inversion holds for every test evaluated as expecting
\* failure whose body was invoked and, for methods, whose tearDown does not
\* raise; a raising tearDown yields ModuleError instead.  In no case is the
\* outcome Fail or Error.
C2_InversionUnlessTearDownRaises ==
  (pc = "done" /\ expecting_failure /\ Called("call")) =>
    /\ ~Raised("tearDown") =>
         outcome = IF test_result.ok THEN ExpectedFailure ELSE Pass
    /\ Raised("tearDown") => outcome.kind = "ModuleError"
    /\ outcome.kind \notin {"Fail", "Error"}

\* C2 witness: a method test expecting failure whose body raised an
\* AssertionError and is reported as Pass.
C2_Witness ==
  /\ pc = "done" /\ expecting_failure /\ Called("call")
  /\ test_kind = "Method" /\ ~Raised("tearDown")
  /\ test_result = Err([kind |-> AssertionErrorName, message |-> "msg"])
  /\ outcome = Pass

\* The object carries a skip marker: a truthy unittest skip attribute, or a
\* pytestmark list of marks (every entry has a name) holding an unconditional
\* skip entry or a skipIf entry whose condition is true.
IsMarkList(marks) == \A i \in 1..Len(marks) : marks[i].name # "NoName"
SkipEntry(m) == m.name = "skip" \/ (m.name = "skipIf" /\ m.args = "T")
CarriesSkipMarker(o) ==
  \/ o.skip = "truthy"
  \/ /\ o.has_marks
     /\ IsMarkList(o.marks)
     /\ \E i \in 1..Len(o.marks) : SkipEntry(o.marks[i])

\* Positions after a skip check that let the inspected object through.
PastSkipCheck ==
  {"expecting_function", "call_function", "classify_function",
   "get_method", "expecting_method", "setUp", "call_method", "tearDown",
   "classify_method"}

\* C3: a skip marker wins over everything after it.  Whenever the skip
\* policy found a marker on the function, the class instance or the method,
\* the outcome is Skip with that reason and the expected-failure policy,
\* setUp, the body and tearDown were never invoked; and no object carrying a
\* skip marker ever gets past its skip check.
C3_SkipPriority ==
  /\ skip_reason.tag = "Some" =>
       /\ pc = "done"
       /\ outcome = Skip(skip_reason.reason)
       /\ ~Called("is_expecting_failure")
       /\ ~Called("setUp")
       /\ ~Called("call")
       /\ ~Called("tearDown")
  /\ pc \in PastSkipCheck => ~CarriesSkipMarker(object)
  /\ Called("call") => ~CarriesSkipMarker(object)

\* C3 witness: a method that carries both a pytest skip entry and a truthy
\* expected-failure attribute is skipped.
C3_Witness ==
  /\ skip_reason.tag = "Some"
  /\ test_kind = "Method" /\ Called("get_method")
  /\ object.skip # "truthy" /\ object.xfail = "truthy"
  /\ outcome.kind = "Skip"

\* The load of the owning file raised, while compiling it or while executing
\* its top-level code.
LoadRaised == Raised("compile_file") \/ Raised("execute_file")

\* C16: an exception raised while loading the owning file (compilation or
\* top-level execution) ends the run with ModuleError, and nothing later
\* happens: no target is resolved, no marker is evaluated, and setUp, the
\* body and tearDown are never invoked.
C16_LoadFailureIsModuleError ==
  LoadRaised =>
    /\ pc = "done"
    /\ outcome.kind = "ModuleError"
    /\ \A i \in 1..Len(trace) : trace[i].call \in {"compile_file", "execute_file"}

\* C16 witness: a method test whose file compiled but whose top-level code
\* raised, reported as ModuleError.
C16_Witness ==
  /\ test_kind = "Method"
  /\ ~Raised("compile_file") /\ Raised("execute_file")
  /\ pc = "done" /\ outcome.kind = "ModuleError"

\* A lookup by name failed: the function or the class in the module, or the
\* method on the instance.
LookupFailed ==
  Raised("get_function") \/ Raised("get_class") \/ Raised("get_method")

\* Neither hook nor the body was invoked.
NothingInvoked == ~Called("setUp") /\ ~Called("call") /\ ~Called("tearDown")

\* C17 as stated: whenever resolving the target fails (the function lookup,
\* the class lookup, the instantiation of the class, or the method lookup)
\* the outcome is TestNotFound and setUp, the body and tearDown are never
\* invoked.
C17_UnresolvedTargetIsTestNotFound ==
  (LookupFailed \/ Raised("instantiate")) =>
    /\ pc = "done"
    /\ outcome = TestNotFound
    /\ NothingInvoked

\* C17 amended: a failed lookup by name (function, class or method) yields
\* TestNotFound; a class whose instantiation raises yields ModuleError; in
\* all four cases setUp, the body and tearDown are never invoked.
C17_UnresolvedTarget ==
  /\ LookupFailed => pc = "done" /\ outcome = TestNotFound /\ NothingInvoked
  /\ Raised("instantiate") =>
       pc = "done" /\ outcome.kind = "ModuleError" /\ NothingInvoked

\* C17 witness: a method test whose class was found and instantiated but
\* whose method is missing from the instance, reported as TestNotFound.
C17_Witness ==
  /\ test_kind = "Method"
  /\ Called("instantiate") /\ Raised("get_method")
  /\ pc = "done" /\ outcome = TestNotFound

\* C18: when the setUp hook of a method test raises, the outcome is
\* ModuleError, whether or not the test was evaluated as expecting failure,
\* and the test body is not invoked.
C18_SetUpFailureIsModuleError ==
  Raised("setUp") =>
    /\ test_kind = "Method"
    /\ pc = "done"
    /\ outcome.kind = "ModuleError"
    /\ ~Called("call")

\* C18 witness: a method marked expected-failure whose setUp raised.
C18_Witness ==
  /\ Raised("setUp") /\ expecting_failure
  /\ pc = "done" /\ outcome.kind = "ModuleError"

\* C19: when the tearDown hook of a method test raises, the outcome is
\* ModuleError whatever the body produced (normal return, AssertionError,
\* other exception, skip exception) and whether or not the test was
\* evaluated as expecting failure.
C19_TearDownFailureIsModuleError ==
  Raised("tearDown") =>
    /\ test_kind = "Method"
    /\ Called("call")
    /\ pc = "done"
    /\ outcome.kind = "ModuleError"

\* C19 witness: the body returned normally, the test does not expect
\* failure, and the raising tearDown turned the would-be Pass into
\* ModuleError.
C19_Witness ==
  /\ Raised("tearDown") /\ test_result = Ok /\ ~expecting_failure
  /\ pc = "done" /\ outcome.kind = "ModuleError"

\* The body of a test not evaluated as expecting failure raised an
\* exception whose class name starts with "Skip".
BodyRaisedSkip ==
  /\ pc = "done" /\ Called("call")
  /\ ~expecting_failure
  /\ ~test_result.ok
  /\ SubSeq(test_result.error.kind, 1, 4) = <<"S", "k", "i", "p">>

\* C26 as stated: a test not marked expected-failure whose body raises an
\* exception with a class name starting with "Skip" has the outcome Skip
\* with the exception's message as reason, function or method alike.
C26_SkipExceptionIsSkip ==
  BodyRaisedSkip => outcome = Skip(test_result.error.message)

\* C26 amended: the same for every function test and for every method test
\* whose tearDown does not raise; when tearDown raises the outcome is
\* ModuleError.  In no case is the outcome Fail or Error.
C26_SkipExceptionIsSkipUnlessTearDownRaises ==
  BodyRaisedSkip =>
    /\ ~Raised("tearDown") => outcome = Skip(test_result.error.message)
    /\ Raised("tearDown") => outcome.kind = "ModuleError"
    /\ outcome.kind \notin {"Fail", "Error"}

\* C26 witness: a function test whose body raised Skipped, a name that
\* starts with "Skip", reported as Skip with the message as reason.
C26_Witness ==
  /\ BodyRaisedSkip /\ test_kind = "Function"
  /\ test_result.error.kind = SkippedName
  /\ outcome = Skip("msg")

\* The skip policy as the claim states it: a truthy native marker, or a
\* list entry that is an unconditional skip or a conditional skip whose
\* condition is true.
SkipPolicy(o) ==
  \/ o.skip = "truthy"
  \/ o.has_marks /\ \E i \in 1..Len(o.marks) : SkipEntry(o.marks[i])

\* The reason the claim expects: the why attribute of the native marker,
\* else the reason keyword of the first skipping entry, "" when absent.
RECURSIVE FirstSkipReason(_)
FirstSkipReason(marks) ==
  IF marks = <<>> THEN ""
  ELSE IF SkipEntry(Head(marks))
       THEN (IF Head(marks).reason = "NoReason" THEN "" ELSE Head(marks).reason)
       ELSE FirstSkipReason(Tail(marks))

SkipPolicyReason(o) ==
  IF o.skip = "truthy" THEN (IF o.why = "absent" THEN "" ELSE o.why)
  ELSE FirstSkipReason(o.marks)

\* C27: the skip policy, for objects whose marker list holds marks only
\* (every entry has a name).  The object is skipped if and only if it
\* carries a truthy native skip marker or its list holds an unconditional
\* skip entry or a conditional skip entry whose condition is true; the
\* reason is the why attribute or the entry's reason keyword, "" when
\* absent; and the inspection always ends with one of the two answers.
C27_SkipPolicy ==
  IsMarkList(object.marks) =>
    /\ skip_reason.tag = "Some" =>
         /\ SkipPolicy(object)
         /\ skip_reason.reason = SkipPolicyReason(object)
    /\ pc \in PastSkipCheck => ~SkipPolicy(object)
    /\ ~Raised("has_skip_annotation")

\* The expected-failure policy as the claim states it: a truthy native
\* marker, or an xfail entry whose condition is true anywhere in the list.
ExpectedFailurePolicy(o) ==
  \/ o.xfail = "truthy"
  \/ o.has_marks /\ \E i \in 1..Len(o.marks) :
       o.marks[i].name = "xfail" /\ o.marks[i].args = "T"

\* Every xfail entry of the list has a condition.
ConditionalXfailOnly(marks) ==
  \A i \in 1..Len(marks) : marks[i].name = "xfail" => marks[i].args # "empty"

\* C28: the expected-failure policy, for objects whose marker list holds
\* marks only and whose xfail entries all have a condition.  The test is
\* treated as expecting failure if and only if the object carries a truthy
\* native marker or its list holds an xfail entry whose condition is true,
\* lists with several xfail entries included.
C28_ExpectedFailurePolicy ==
  (/\ Called("is_expecting_failure")
   /\ IsMarkList(object.marks)
   /\ ConditionalXfailOnly(object.marks)) =>
     /\ ~Raised("is_expecting_failure")
     /\ expecting_failure <=> ExpectedFailurePolicy(object)

\* ------------------------------------------- properties of the scheduler

Created(s) == interp_state[s] # "none"

\* C4: each sub-interpreter's lock is held by at most one thread, and the
\* only thread that ever acquires it is the worker that created the
\* sub-interpreter.
C4_SubInterpreterLockIsPrivate ==
  \A s \in Subs :
    /\ Cardinality(holders[GilOf(s)]) <= 1
    /\ acquired[GilOf(s)] \subseteq {creator[s]}
    /\ Created(s) => creator[s] \in Workers

\* C4 happens: two workers run their tests at the same time, each holding
\* the lock of the sub-interpreter it created.
C4_Witness ==
  \E s1, s2 \in Subs :
    /\ s1 # s2
    /\ Created(s1) /\ Created(s2)
    /\ creator[s1] # creator[s2]
    /\ wpc[creator[s1]] = "run_save" /\ task[creator[s1]] = s1
    /\ wpc[creator[s2]] = "run_save" /\ task[creator[s2]] = s2
    /\ holders[GilOf(s1)] = {creator[s1]}
    /\ holders[GilOf(s2)] = {creator[s2]}

\* C5: no operation on an interpreter is performed by a thread that does not
\* hold that interpreter's lock at that moment.
C5_OperationsOnlyUnderLock == unlocked_ops = {}

\* C5 happens: a worker has armed coverage, run the test and extracted the
\* coverage on its sub-interpreter, all of it under the lock.
C5_Witness ==
  \E w \in Workers :
    /\ wpc[w] = "get_save"
    /\ local[w].coverage
    /\ local[w].outcome \in Kinds
    /\ Holds(w, task[w])
    /\ unlocked_ops = {}

RunReturned(w) == wpc[w] \in {"get_restore", "drop_restore"}

\* C6: SubInterpreter::run / Interpreter::with_gil: the caller does not hold
\* the lock before the call; the lock is held by the caller alone while the
\* action runs and until the release; once the call has returned the caller
\* holds no lock, the saved thread state is the one given back by the
\* release (that of its interpreter) and the value returned is the action's.
C6_RunBracketsTheActionWithTheLock ==
  \A w \in Workers :
    /\ wpc[w] = "run_restore" =>
         /\ \A i \in Interpreters : w \notin holders[i]
         /\ current_ts[w] = NULL
    /\ wpc[w] \in {"run_call", "run_save"} =>
         /\ holders[GilOf(task[w])] = {w}
         /\ current_ts[w] = task[w]
    /\ RunReturned(w) =>
         /\ \A i \in Interpreters : w \notin holders[i]
         /\ current_ts[w] = NULL
         /\ interpreter_state[w] = task[w]
         /\ local[w].outcome = f_result[w]

\* C6 happens: run has returned a failing outcome to one worker, which has
\* let go of the lock, while another worker is inside its own action.
C6_Witness ==
  \E w1, w2 \in Workers :
    /\ w1 # w2
    /\ wpc[w1] = "get_restore"
    /\ local[w1].outcome = "Fail"
    /\ wpc[w2] = "run_save"

NewReturned(w) ==
  \/ wpc[w] = "cov_restore"
  \/ wpc[w] = "run_restore" /\ (task[w] \in Files \/ ~coverage_enabled)

\* C7: at most one thread holds the main interpreter's lock; inside
\* SubInterpreter::new the main lock is held only up to the creation of the
\* sub-interpreter, and when new returns the caller holds no lock at all.
C7_NewHoldsMainLockMomentarily ==
  /\ Cardinality(holders[GilOf(MainInterpreter)]) <= 1
  /\ \A w \in Workers :
       /\ wpc[w] = "new_create" => holders[GilOf(MainInterpreter)] = {w}
       /\ wpc[w] = "new_save" =>
            /\ w \notin holders[GilOf(MainInterpreter)]
            /\ holders[GilOf(task[w])] = {w}
       /\ NewReturned(w) => \A i \in Interpreters : w \notin holders[i]

\* C7 happens: one worker is inside new holding the main lock while the call
\* of another worker has already returned with its sub-interpreter created.
C7_Witness ==
  \E w1, w2 \in Workers :
    /\ w1 # w2
    /\ wpc[w1] = "new_create"
    /\ holders[GilOf(MainInterpreter)] = {w1}
    /\ NewReturned(w2)
    /\ Created(task[w2])

\* C8: a sub-interpreter is ended by the thread that owns it, holding its
\* lock again; the main interpreter is finalized only when no
\* sub-interpreter created during the run is still alive.
C8_TeardownOrder ==
  /\ \A s \in Subs :
       interp_state[s] = "ended" =>
         /\ ended[s].by = creator[s]
         /\ ended[s].locked
  /\ interp_state[MainInterpreter] = "ended" =>
       \A s \in Subs : interp_state[s] # "alive"

\* C8 happens: the run is over, tests and coverage scan included: every
\* sub-interpreter has been created and ended, then the main one finalized.
C8_Witness ==
  /\ interp_state[MainInterpreter] = "ended"
  /\ \A s \in Subs : interp_state[s] = "ended" /\ ended[s].locked

Distinct(seq) ==
  \A i, j \in 1..Len(seq) : i # j => seq[i] # seq[j]

Occurrences(seq, t) == Cardinality({i \in 1..Len(seq) : seq[i] = t})

\* C9: with fail-fast disabled no test is reported twice, the process never
\* exits from the inspection, and the collected run has exactly one outcome
\* per discovered test, N in all, however many of them fail.
C9_ExactlyOneOutcomePerTest ==
  no_fail_fast =>
    /\ Distinct(reported)
    /\ exit_code # "exit(1)"
    /\ fail_fast_errors = <<>>
    /\ summary.built =>
         /\ summary.passed + summary.skipped + summary.failed = Cardinality(discovered)
         /\ \A t \in discovered :
              /\ results[t] \in Kinds
              /\ Occurrences(reported, t) = 1

\* C9 happens: fail-fast is disabled, every test failed and all N outcomes
\* have been collected.
C9_Witness ==
  /\ no_fail_fast
  /\ summary.built
  /\ summary.failed = NumTests
  /\ Len(reported) = NumTests

FailureSeen == \E w \in Workers : wpc[w] \in {"fail_fast", "exit"} /\ is_fail(local[w].outcome)

InFlight(w) ==
  /\ task[w] \in Tests
  /\ wpc[w] \notin {"idle", "inspect", "fail_fast", "exit"}

OutcomeOf(t) ==
  IF results[t] # "none" THEN results[t]
  ELSE IF \E w \in Workers : task[w] = t
       THEN local[CHOOSE w \in Workers : task[w] = t].outcome
       ELSE "none"

FailingLines == {i \in 1..Len(reported) : is_fail(OutcomeOf(reported[i]))}

FirstFailingLine == CHOOSE i \in FailingLines : \A j \in FailingLines : i <= j

Ended == exit_code # "Running"

\* C13: the process exits with success exactly when a final tally exists in
\* which no collected outcome is a failing one and at least one is Pass; a
\* run with no test, or whose outcomes are all Skip, exits with failure.
C13_SuccessIffNoFailureAndAPass ==
  Ended =>
    /\ exit_code = "SUCCESS" <=>
         /\ summary.built
         /\ \A t \in discovered : ~is_fail(results[t])
         /\ \E t \in discovered : results[t] = "Pass"
    /\ discovered = {} => exit_code = "FAILURE"
    /\ (\A t \in discovered : OutcomeOf(t) = "Skip") => exit_code = "FAILURE"
    /\ summary.built =>
         /\ summary.failed = Cardinality({t \in discovered : is_fail(results[t])})
         /\ summary.passed = Cardinality({t \in discovered : results[t] = "Pass"})

\* C13 happens: every discovered test was skipped, the tally has no failure
\* and the process has exited with failure.
C13_Witness ==
  /\ exit_code = "FAILURE"
  /\ discovered = Tests
  /\ summary.built
  /\ summary.failed = 0
  /\ summary.skipped = NumTests

\* ----------------------------------------------- properties of the handles

\* C14: dropping a BorrowedPyObject leaves the reference count of its object
\* as it was: the count right after the drop is the count right before it.
C14_BorrowedDropKeepsTheCount ==
  drop_effect.kind = "BorrowedPyObject" =>
    drop_effect.after = drop_effect.before

\* C15: over any sequence of handle operations the reference count of an
\* object is never below the number of live owned handles to it, and no
\* freed object is ever used through a handle.
C15_ReferenceCountBalance ==
  /\ \A o \in ObjectIds : ob_refcnt[o] >= Cardinality(Owned(o))
  /\ ~used_after_free

\* ------------------------------------------- properties of captured output

\* The text test t has written to stream s so far: its chunks, in order.
RECURSIVE TextOf(_, _, _)
TextOf(log, t, s) ==
  IF log = <<>> THEN <<>>
  ELSE (IF Head(log).test = t /\ Head(log).stream = s THEN Head(log).text ELSE <<>>)
       \o TextOf(Tail(log), t, s)

\* C20: capture isolation.  Whenever a test run side by side with others
\* fails, the stdout and stderr stored in its Error are exactly the text
\* this test wrote to stdout and to stderr, all of it and in order, and
\* nothing another test wrote.
C20_CaptureIsolation ==
  \A t \in Tests :
    error_output[t].built =>
      /\ error_output[t].stdout = SomeText(TextOf(writes, t, "stdout"))
      /\ error_output[t].stderr = SomeText(TextOf(writes, t, "stderr"))

\* C20 witness: two tests under way at the same time whose writes to stdout
\* interleave (first test, second test, first test again) both fail, each
\* with its own text.
C20_Witness ==
  /\ Len(writes) = 3
  /\ writes[1].test = 1 /\ writes[2].test = 2 /\ writes[3].test = 1
  /\ \A i \in 1..3 : writes[i].stream = "stdout"
  /\ error_output[1].built /\ error_output[2].built
  /\ error_output[1].stdout.text # error_output[2].stdout.text

\* ------------------------------------------ properties of the trace function

\* The (file, line) pairs of a Lines map.
PairsOf(lines) ==
  {e \in (DOMAIN lines) \X LineNumbers : e[2] \in lines[e[1]]}

\* A synthetic unit or a file of the standard library rooted at path.
IsExcluded(file_name, path) ==
  \/ Head(file_name) = "<"
  \/ SubSeq(file_name, 1, Len(path)) = path

\* The map the instrumentation would return now.
ReturnedNow == finish(tracer)

\* C21: after any sequence of trace events, the executed-lines map the
\* instrumentation returns holds no file whose name starts with '<' and no
\* file whose name starts with the standard library path the TraceObject
\* was built with; no map already returned holds a synthetic unit.
C21_NoSyntheticOrStdlibFile ==
  /\ tracer.py =>
       \A f \in DOMAIN ReturnedNow :
         ~IsExcluded(f, tracer.standard_library_path)
  /\ \A i \in 1..Len(extractions) :
       \A f \in DOMAIN extractions[i].lines : Head(f) # "<"

\* C21 witness: line events were raised in a synthetic unit and in a file
\* of the standard library as well as in the test file, and the map holds
\* the test file.
C21_Witness ==
  /\ tracer.py
  /\ \E l \in LineNumbers : <<SyntheticFile, l>> \in line_events
  /\ \E l \in LineNumbers : <<StdlibFile, l>> \in line_events
  /\ tracer.standard_library_path = <<"/", "l">>
  /\ TestFile \in DOMAIN ReturnedNow

\* The line events raised in files that are tracked.
TrackedEvents(path) == {e \in line_events : ~IsExcluded(e[1], path)}

\* C22: the lazy recheck is exact.  The file of the running frame changes
\* only at a call or a return; at every moment the lines on record are
\* exactly the line events raised in tracked files, each under the name of
\* the file whose frame executed it.
C22_LazyRecheckIsExact ==
  tracer.py =>
    PairsOf(ReturnedNow) = TrackedEvents(tracer.standard_library_path)

\* C22 witness: a function of the helper file was called from the test
\* file and returned; different lines of both files are on record, each
\* under its own file.
C22_Witness ==
  /\ tracer.py /\ tracer.standard_library_path = <<"/", "l">>
  /\ Len(frames) = 1 /\ co_filename[frames[1]] = TestFile
  /\ PairsOf(ReturnedNow) = {<<TestFile, 1>>, <<HelperFile, 2>>}
  /\ tracer.current.file = TestFile

\* C23: extraction drains and disarms.  The first get_coverage after
\* enable_coverage returns every line recorded so far, the lines of the
\* file still being recorded included, and the empty map when nothing was
\* recorded; from then on the trace function is no longer installed and
\* the TraceObject is gone, and a second get_coverage returns no data.
C23_ExtractionDrainsAndDisarms ==
  /\ Len(extractions) >= 1 =>
       /\ extractions[1].some
       /\ \E path \in StdlibPaths :
            PairsOf(extractions[1].lines) = TrackedEvents(path)
       /\ line_events = {} => extractions[1].lines = EmptyLines
       /\ ~installed
       /\ ~tracer.py
  /\ Len(extractions) >= 2 =>
       /\ ~extractions[2].some
       /\ extractions[2].lines = EmptyLines

\* C23 witness: the lines of the test file were still held in `current`
\* when the first extraction happened; Python code ran again afterwards
\* and a second extraction returned nothing.
C23_Witness ==
  /\ Len(extractions) = 2
  /\ PairsOf(extractions[1].lines) = {<<TestFile, 1>>, <<TestFile, 2>>}
  /\ ~extractions[2].some

\* ------------------------------------------- properties of the aggregation

\* The coverages of the items, in their order.
CoveragesOf(its) == [i \in 1..Len(its) |-> its[i].coverage]

\* Set union per file key: every file of some item, with the lines of all
\* the items that hold it.
UnionPerFile(its) ==
  LET holding(f) == {i \in 1..Len(its) :
                       its[i].coverage.some /\ f \in DOMAIN its[i].coverage.lines}
      files == {f \in CoveredFiles : holding(f) # {}}
  IN [f \in files |-> UNION {its[i].coverage.lines[f] : i \in holding(f)}]

\* The items in another order.
Reordered(its, order) == [i \in 1..Len(its) |-> its[order[i]]]

\* C24: merging the per-worker Lines is set union per file key; the merged
\* result is the same in whatever order the partial results are merged, and
\* merging any of them a second time leaves it unchanged.
C24_MergeIsUnionPerFile ==
  test_summary.built =>
    /\ test_summary.executed_lines = UnionPerFile(items)
    /\ \A order \in Permutations(1..Len(items)) :
         par_extend(EmptyLines, CoveragesOf(Reordered(items, order)))
           = test_summary.executed_lines
    /\ \A i \in 1..Len(items) :
         par_extend(test_summary.executed_lines, <<items[i].coverage>>)
           = test_summary.executed_lines

\* C24 witness: two tests covered different lines of the same file and one
\* of them a second file; the merged map holds the union under each file.
C24_Witness ==
  /\ test_summary.built /\ Len(items) = 2
  /\ items[1].coverage = SomeLines([f \in {TestFile} |-> {1}])
  /\ items[2].coverage.some
  /\ DOMAIN items[2].coverage.lines = {TestFile, HelperFile}
  /\ items[2].coverage.lines[TestFile] = {2}
  /\ test_summary.executed_lines[TestFile] = {1, 2}

\* The number of items of the given kinds.
CountOf(its, kinds) == Cardinality({i \in 1..Len(its) : its[i].outcome \in kinds})

\* C25: aggregation is a pure count by outcome kind.  passed is the number
\* of Pass outcomes, skipped the number of Skip outcomes, failed the number
\* of outcomes of every other kind; the three add up to the length of the
\* outcome list, which holds the outcome of each item exactly once.
C25_SummaryCountsByKind ==
  test_summary.built =>
    /\ test_summary.passed = CountOf(items, {"Pass"})
    /\ test_summary.skipped = CountOf(items, {"Skip"})
    /\ test_summary.failed = CountOf(items, Kinds \ {"Pass", "Skip"})
    /\ test_summary.passed + test_summary.skipped + test_summary.failed
         = Len(test_summary.tests)
    /\ Len(test_summary.tests) = Len(items)
    /\ \A i \in 1..Len(items) :
         Cardinality({j \in 1..Len(test_summary.tests) :
                        /\ test_summary.tests[j].test = items[i].test
                        /\ test_summary.tests[j].outcome = items[i].outcome}) = 1

\* C25 witness: an Error and a TestNotFound both count as failed.
C25_Witness ==
  /\ test_summary.built /\ Len(items) = 2
  /\ items[1].outcome = "Error" /\ items[2].outcome = "TestNotFound"
  /\ test_summary.failed = 2 /\ test_summary.passed = 0

\* ------------------------------------------ properties of the JSON report
\* The category the report gives for each outcome kind.
CategoryTable ==
  { <<"Pass", "Pass">>, <<"Skip", "Skip">>, <<"Fail", "Fail">>,
    <<"Error", "Fail">>, <<"ExpectedFailure", "ExpectedFailure">>,
    <<"ModuleError", "NonTestFail">>, <<"TestNotFound", "NonTestFail">> }

\* C29: in every line of the JSON report, Pass is reported as Pass, Skip as
\* Skip, Fail and Error as Fail, ExpectedFailure as ExpectedFailure,
\* ModuleError and TestNotFound as NonTestFail; the line has an `error` key
\* exactly for Fail, Error and ModuleError and a `time` key exactly for Pass,
\* Fail, Error and ExpectedFailure, with the error and the time of the
\* outcome as values.
C29_ReportedCategories ==
  \A i \in 1..Len(json_lines) :
    LET kind == outcomes[i].outcome
        line == json_lines[i]
    IN /\ line.test_identifier = outcomes[i].identifier
       /\ <<kind.kind, line.outcome>> \in CategoryTable
       /\ ("error" \in DOMAIN line) <=> kind.kind \in {"Fail", "Error", "ModuleError"}
       /\ ("time" \in DOMAIN line)
            <=> kind.kind \in {"Pass", "Fail", "Error", "ExpectedFailure"}
       /\ "error" \in DOMAIN line => line.error = kind.error
       /\ "time" \in DOMAIN line => line.time = kind.time

\* C29 witness: a ModuleError reported as NonTestFail with its error and no
\* time, then an Error reported as Fail with both.
C29_Witness ==
  /\ Len(json_lines) = 2
  /\ outcomes[1].outcome.kind = "ModuleError"
  /\ json_lines[1].outcome = "NonTestFail"
  /\ DOMAIN json_lines[1] = {"file", "test_identifier", "outcome", "error"}
  /\ outcomes[2].outcome.kind = "Error"
  /\ json_lines[2].outcome = "Fail"
  /\ DOMAIN json_lines[2] = {"file", "test_identifier", "outcome", "error", "time"}

\* --------------------------------------- properties of Traceback::from
RECURSIVE ChainFrom(_)
\* The traceback objects linked from a node through tb_next, in chain order.
ChainFrom(node) ==
  IF node \notin 1..Len(tb_nodes) THEN <<>>
  ELSE <<node>> \o ChainFrom(tb_nodes[node].tb_next)

\* The exception's chain, from its first node.
Chain == ChainFrom(exc_traceback)

\* The frame a traceback object stands for: (line, function, file).
FrameOfNode(node) ==
  [line |-> tb_nodes[node].tb_lineno,
   function |-> stack[tb_nodes[node].tb_frame].co_name,
   file |-> stack[tb_nodes[node].tb_frame].co_filename]

\* Once Traceback::from has returned: no Traceback without a chain, else one
\* frame per node of the chain in chain order, the chain being the frames the
\* exception passed through, test function first; one frame, that of the
\* test function at the line of the raise, when it was raised there.
TracebackIsTheChain ==
  tb_pc = "done" =>
    /\ Len(Chain) = Len(stack)
    /\ Chain = <<>> => traceback = NoTraceback
    /\ Chain # <<>> =>
         /\ traceback.tag = "Some"
         /\ Len(traceback.value) = Len(Chain)
         /\ \A i \in 1..Len(Chain) :
              traceback.value[i] = FrameOfNode(Chain[i])
    /\ Len(stack) = 1 =>
         traceback = Some(<<[line |-> stack[1].f_lineno,
                             function |-> stack[1].co_name,
                             file |-> stack[1].co_filename]>>)

\* C30: Traceback::from walks the exception's chain of traceback objects
\* from its first node and returns for every finite chain, with exactly one
\* frame (line, function, file) per node in chain order; an exception raised
\* directly in the test function gets exactly one frame, at that file,
\* function and line.
C30_OneFramePerNode == []TracebackIsTheChain /\ <>(tb_pc = "done")

\* C30 witness: an exception raised in a helper called by a helper called by
\* the test function, converted into three frames, test function first.
C30_Witness ==
  /\ tb_pc = "done"
  /\ Len(stack) = 3
  /\ stack[1].co_name = "test_fails" /\ stack[2].co_name = "helper"
  /\ stack[1].f_lineno = 2 /\ stack[3].f_lineno = 1
  /\ traceback.tag = "Some"
  /\ Len(traceback.value) = 3
  /\ traceback.value[1].function = "test_fails"
  /\ traceback.value[1].line = 2
  /\ traceback.value[3].line = 1

\* ------------------------------- properties of the raised exception
\* C31: no live exception crosses a scope boundary.  Whenever a native call
\* fails, its exception is fetched and cleared before the wrapper returns;
\* when run::test returns nothing is raised in the sub-interpreter; and
\* PyError::get never runs with nothing raised (it never panics).
C31_NoLiveException ==
  /\ \A i \in 1..Len(native_calls) :
       native_calls[i].failed => native_calls[i].left = NoException
  /\ exc_pc = "returned" => indicator = NoException
  /\ exc_pc # "panicked"

RECURSIVE Split(_)
\* The components of a dotted name.
Split(name) ==
  IF Dots(name) = {} THEN <<name>>
  ELSE LET first == CHOOSE i \in Dots(name) : \A j \in Dots(name) : i <= j
       IN <<SubSeq(name, 1, first - 1)>> \o Split(SubSeq(name, first + 1, Len(name)))

\* A directory is a package when it holds the marker file.
IsPackage(dir) == is_dir(dir) /\ Len(dir) \in tree.inits

\* How many consecutive directories directly above the file are packages.
PackageDepth ==
  LET n == Len(tree.dirs)
  IN CHOOSE k \in 0..n :
       /\ \A j \in (n - k + 1)..n : j \in tree.inits
       /\ k < n => (n - k) \notin tree.inits

\* The directory above the outermost of these packages.
PackageRoot == SubSeq(tree.dirs, 1, Len(tree.dirs) - PackageDepth)

\* The names of these packages, outermost first, and the file stem.
ExpectedComponents ==
  SubSeq(tree.dirs, Len(tree.dirs) - PackageDepth + 1, Len(tree.dirs))
    \o <<<<"t">>>>

\* The file an import of the dotted name finds: the first directory of the
\* path list that holds the top-level name decides; below it every component
\* but the last is a package and the last is a .py file.
Resolve(path_list, name) ==
  LET comps == Split(name)
      k == Len(comps)
      Holds_top(dir) ==
        IF k = 1 THEN exists(Append(dir, comps[1] \o <<".", "p", "y">>))
        ELSE IsPackage(Append(dir, comps[1]))
      found == {i \in 1..Len(path_list) : Holds_top(path_list[i])}
  IN IF found = {} THEN <<"not found">>
     ELSE LET dir == path_list[CHOOSE i \in found : \A j \in found : i <= j]
              target == dir \o SubSeq(comps, 1, k - 1)
                          \o <<comps[k] \o <<".", "p", "y">>>>
          IN IF /\ \A j \in 1..(k - 1) : IsPackage(dir \o SubSeq(comps, 1, j))
                /\ exists(target)
             THEN target
             ELSE <<"not found">>

\* C33: once the file is compiled, its module name is the dot-joined chain
\* of the consecutive package directories above it followed by the file
\* stem; the first directory of the import path is the directory above that
\* chain, and resolving the module name through the import path leads back
\* to the file, at every nesting depth and from every working directory.
\* add_parent_module_to_path adds exactly that directory.
C33_FileImportableUnderItsName ==
  module_name # <<>> =>
    /\ Split(module_name) = ExpectedComponents
    /\ path_pc \in {"exec", "done"} =>
         /\ sys_path # <<>>
         /\ Head(sys_path) = PackageRoot
         /\ Resolve(sys_path, module_name) = FilePath
         /\ add_parent_module_to_path(canonicalize(file_arg), <<>>)
              = <<PackageRoot>>

\* C33 witness: /a/b/a/t.py with b and the inner a packages, loaded from
\* inside the inner package: b.a.t, importable from /a.
C33_Witness ==
  /\ path_pc = "done"
  /\ tree = [dirs |-> << <<"a">>, <<"b">>, <<"a">> >>, inits |-> {2, 3}]
  /\ file_arg.cwd = tree.dirs
  /\ module_name = <<"b", ".", "a", ".", "t">>
  /\ Head(sys_path) = << <<"a">> >>
  /\ Resolve(sys_path, module_name) = FilePath

\* The lines of the line events raised in a file.
LinesOf(file) == {l \in LineNumbers : <<file, l>> \in line_events}

\* The files a map reports, each with the union of the lines recorded in
\* all its visits, and no file with an empty set of lines.
ReportsEveryVisit(lines, path) ==
  /\ \A f \in DOMAIN lines : lines[f] # {} /\ lines[f] = LinesOf(f)
  /\ \A p \in FilePointers :
       (~IsExcluded(co_filename[p], path) /\ LinesOf(co_filename[p]) # {})
         => co_filename[p] \in DOMAIN lines

\* C34: coverage accumulation loses nothing across file switches.  However
\* often execution leaves a tracked file and re-enters it, the set of lines
\* reported for the file is the union of the lines recorded during all its
\* visits, and the reported map holds no file with an empty set of lines;
\* this holds of the map that would be returned now and of the map the
\* first extraction returned.
C34_NothingLostAcrossSwitches ==
  /\ tracer.py => ReportsEveryVisit(ReturnedNow, tracer.standard_library_path)
  /\ Len(extractions) >= 1 =>
       \E path \in StdlibPaths : ReportsEveryVisit(extractions[1].lines, path)

\* C34 witness: the test file was recorded, left for the helper file and
\* entered again, which emptied its entry in all_files; the map returned
\* now holds both lines of the test file and the line of the helper file.
C34_Witness ==
  /\ tracer.py /\ tracer.current.some /\ tracer.current.file = TestFile
  /\ TestFile \in DOMAIN tracer.all_files
  /\ tracer.all_files[TestFile] = {}
  /\ ReturnedNow[TestFile] = {1, 2}
  /\ HelperFile \in DOMAIN ReturnedNow /\ ReturnedNow[HelperFile] = {1}

\* The counters before the first outcome is counted.
NoCounts == [passed |-> 0, skipped |-> 0, failed |-> 0]

\* The outcome kind is counted in failed by the summary.
CountedFailed(kind) == tally_step(NoCounts, kind).failed = 1

\* C35: the failure predicate agrees with the tally and the exit code.
\* is_fail() holds of an outcome exactly when the summary counts it in
\* failed, that is for every kind but Pass and Skip; the summary's failed
\* is the number of outcomes of which is_fail() holds, so a run with an
\* outcome that triggers fail-fast is not successful when it is collected
\* instead.
C35_FailPredicateAgreesWithTally ==
  /\ \A i \in 1..Len(items) :
       /\ is_fail(items[i].outcome) <=> CountedFailed(items[i].outcome)
       /\ is_fail(items[i].outcome) <=>
            items[i].outcome \in {"Fail", "Error", "ModuleError",
                                  "ExpectedFailure", "TestNotFound"}
  /\ test_summary.built =>
       /\ test_summary.failed =
            Cardinality({i \in 1..Len(items) : is_fail(items[i].outcome)})
       /\ (\E i \in 1..Len(items) : is_fail(items[i].outcome))
            => ~(test_summary.failed = 0 /\ test_summary.passed > 0)

\* C35 witness: a collected run with a passing test and an unexpected
\* success, which is_fail() reports and the summary counts in failed.
C35_Witness ==
  /\ test_summary.built /\ Len(items) = 2
  /\ items[1].outcome = "Pass" /\ items[2].outcome = "ExpectedFailure"
  /\ is_fail(items[2].outcome) /\ ~is_fail(items[1].outcome)
  /\ test_summary.failed = 1 /\ test_summary.passed = 1

\* The positions of the calls of the given name in the trace.
Positions(name) == {i \in 1..Len(trace) : trace[i].call = name}

\* The run went through the method's markers and arrived at its hooks.
ReachedHooks == test_kind = "Method" /\ Called("is_expecting_failure")
                  /\ pc \notin {"expecting_method", "aborted", "setUp"}

\* The order of the hooks and the body, in every state of a run.
HooksBracketTheBody ==
  /\ Count("setUp") <= 1 /\ Count("call") <= 1 /\ Count("tearDown") <= 1
  /\ Called("call") => ~Raised("setUp")
  /\ \A i \in Positions("setUp"), j \in Positions("call") : i < j
  /\ Called("tearDown") => Called("call")
  /\ \A i \in Positions("call"), j \in Positions("tearDown") : i < j

\* C36 as stated: for a method-style test whose class defines tearDown, a
\* finished run invoked tearDown exactly once if and only if setUp did not
\* raise.
C36_TearDownIffSetUpDidNotRaise ==
  (test_kind = "Method" /\ pc = "done" /\ has_attr("tearDown")) =>
    (Count("tearDown") = 1 <=> ~Raised("setUp"))

\* C36 amended: for a method-style test that reaches its hooks, tearDown
\* (when defined) is invoked exactly once if and only if setUp did not
\* raise, and always after the body was invoked, whatever the body did;
\* the body is invoked at most once and only after setUp returned.  A run
\* that ends before the hooks invokes neither hook nor the body.
C36_HooksBracketTheBody ==
  /\ test_kind = "Method" => HooksBracketTheBody
  /\ (ReachedHooks /\ pc = "done") =>
       /\ has_attr("tearDown") => (Count("tearDown") = 1 <=> ~Raised("setUp"))
       /\ ~has_attr("tearDown") => Count("tearDown") = 0
       /\ has_attr("setUp") => Count("setUp") = 1
       /\ Count("call") = 1 <=> ~Raised("setUp")
  /\ (test_kind = "Method" /\ pc \in {"done", "aborted"} /\ ~ReachedHooks) =>
       ~Called("setUp") /\ ~Called("call") /\ ~Called("tearDown")

\* C36 witness: setUp returned, the body raised and tearDown was invoked
\* once after it.
C36_Witness ==
  /\ test_kind = "Method" /\ pc = "done" /\ hooks = Hooks
  /\ Count("setUp") = 1 /\ ~Raised("setUp")
  /\ Raised("call") /\ Count("tearDown") = 1
  /\ \A i \in Positions("call"), j \in Positions("tearDown") : i < j

\* C37: a method-style test whose class is found but whose constructor
\* raises when called without arguments ends at once with ModuleError
\* carrying an exception; the failed call is the last native call of the
\* run, so no marker is evaluated, the method is not looked up and neither
\* hook nor the body is invoked.
C37_ConstructorFailureIsModuleError ==
  Raised("instantiate") =>
    /\ test_kind = "Method"
    /\ pc = "done"
    /\ outcome.kind = "ModuleError" /\ outcome.error \in Exceptions
    /\ trace[Len(trace)] = [call |-> "instantiate", ok |-> FALSE]
    /\ ~Called("has_skip_annotation") /\ ~Called("is_expecting_failure")
    /\ ~Called("get_method")
    /\ ~Called("setUp") /\ ~Called("call") /\ ~Called("tearDown")

\* C37 witness: the class of a method test with both hooks was found and
\* its constructor raised a TypeError, which the ModuleError carries.
C37_Witness ==
  /\ test_kind = "Method" /\ hooks = Hooks
  /\ Called("get_class") /\ ~Raised("get_class") /\ Raised("instantiate")
  /\ outcome = ModuleError([kind |-> TypeErrorName, message |-> "msg"])

\* The skip check made on the class instance: the has_skip_annotation call
\* that directly follows the instantiation.
InstanceChecks ==
  {i \in Positions("has_skip_annotation") :
     i > 1 /\ trace[i - 1] = [call |-> "instantiate", ok |-> TRUE]}

\* C38: the skip marker of the class is evaluated on the instance before
\* the method is resolved.  Every lookup of the method comes directly after
\* a skip check of the instance that found no marker; an instance that
\* carries a skip marker never reaches the lookup and its test yields Skip
\* whether or not the method exists; TestNotFound for a missing method is
\* only reported for an instance that carries no skip marker.
C38_InstanceSkipBeforeMethodLookup ==
  /\ \A j \in Positions("get_method") :
       /\ (j - 1) \in InstanceChecks
       /\ trace[j - 1].ok
  /\ pc = "get_method" => skip_reason.tag = "None" /\ ~CarriesSkipMarker(object)
  /\ Raised("get_method") =>
       /\ outcome = TestNotFound
       /\ skip_reason.tag = "None" /\ ~CarriesSkipMarker(object)
  /\ (test_kind = "Method" /\ skip_reason.tag = "Some" /\ Count("has_skip_annotation") = 1) =>
       /\ pc = "done" /\ outcome = Skip(skip_reason.reason)
       /\ ~Called("get_method")
       /\ InstanceChecks # {}

\* C38 witness: the instance of a method test carries a pytest skip entry;
\* the test yields Skip and the method was never looked up.
C38_Witness ==
  /\ test_kind = "Method" /\ pc = "done"
  /\ Count("has_skip_annotation") = 1 /\ InstanceChecks # {}
  /\ object.has_marks /\ object.marks = <<[name |-> "skip", args |-> "empty", reason |-> "r"]>>
  /\ outcome = Skip("r")
  /\ ~Called("get_method")

\* ------------------------------------------ properties of find_tests
\* The walkers whose drop has run to its end.
Dropped == {w \in Walkers : finder[w].at = "dropped"}

RECURSIVE SumOver(_, _)
\* The sum of count[w] over the walkers of a set.
SumOver(count, S) ==
  IF S = {} THEN 0
  ELSE LET w == CHOOSE w \in S : TRUE
       IN count[w] + SumOver(count, S \ {w})

\* The tests the walkers of a set collected locally.
Collected(S) ==
  UNION {{finder[w].tests[i] : i \in 1..Len(finder[w].tests)} : w \in S}

\* How often a test occurs in a list.
TimesIn(t, list) == Cardinality({i \in 1..Len(list) : list[i] = t})

\* The shared result is the merge of the finders of the given walkers.
MergeOf(S) ==
  /\ \A w \in S : \A i \in 1..Len(finder[w].tests) :
       TimesIn(finder[w].tests[i], global_state.tests) = 1
  /\ \A i \in 1..Len(global_state.tests) : global_state.tests[i] \in Collected(S)
  /\ global_state.test_count = Len(global_state.tests)
  /\ global_state.test_count = SumOver([w \in Walkers |-> Len(finder[w].tests)], S)
  /\ global_state.file_count = SumOver([w \in Walkers |-> finder[w].file_count], S)

\* C39: discovery merging is race-free.  Whenever no walker holds the
\* mutex the shared result is the merge of the finders dropped so far, and
\* at most one walker is inside its drop; the result find_tests returns
\* holds every locally collected test exactly once, test_count is the
\* length of the list and file_count the sum of the walkers' file counts,
\* which is the number of Python files of the walk.
C39_MergeIsRaceFree ==
  /\ Cardinality({w \in Walkers :
                    finder[w].at \in {"extend", "file_count", "test_count"}}) <= 1
  /\ state_lock = NoWalker => MergeOf(Dropped)
  /\ disc_pc = "done" =>
       /\ MergeOf(Walkers)
       /\ global_state.file_count =
            Cardinality({e \in WalkEntries : is_python_file(e)})
       /\ \A e \in WalkEntries : \A i \in 1..Len(get_test_methods(e)) :
            is_python_file(e) =>
              TimesIn(get_test_methods(e)[i], global_state.tests) = 1

\* C39 witness: each of two walkers collected the two tests of one file,
\* the second walker dropped first, and find_tests returned the four tests
\* found in three Python files.
C39_Witness ==
  /\ disc_pc = "done"
  /\ Len(finder[1].tests) = 2 /\ Len(finder[2].tests) = 2
  /\ finder[1].file_count + finder[2].file_count = 3
  /\ global_state.tests = finder[2].tests \o finder[1].tests
  /\ global_state.test_count = 4 /\ global_state.file_count = 3

====
